---- MODULE Spec2Model ----
(***************************************************************************)
(* Model of the claude-insights-agent sync engine: internal/watcher        *)
(* (Watcher.sync, Watcher.syncPlans, loadState, saveState), the privacy    *)
(* filter (Filter.Apply, Filter.isExcluded), the session extractor         *)
(* (parser.ParseJSONL, parser.ParsePlan) and the outcomes of the delivery  *)
(* client (client.UploadBatch, client.UploadPlanBatch).                    *)
(*                                                                         *)
(* Strings that the code inspects character by character (directory names, *)
(* project paths, exclusion patterns) are sequences of one-character       *)
(* strings.  File names (session IDs, plan names) are atoms (numbers).     *)
(***************************************************************************)
EXTENDS Integers, Sequences, FiniteSets, TLC

VARIABLES
    cfg,        \* config.Config: Sharing.Level, Sharing.ExcludeProjects,
                \* Sharing.AnonymizePaths, Sync.RetryAttempts
    mode,       \* "once" (cmdSync -> SyncOnce) or "daemon" (cmdRun -> Start)
    projectsDir,\* ~/.claude/projects exists and can be read
    sessFiles,  \* ~/.claude/projects: the *.jsonl files in WalkDir order
    plansDir,   \* ~/.claude/plans exists
    planFiles,  \* ~/.claude/plans: the *.md files in WalkDir order
    stateFile,  \* the state file synced.json
    now,        \* the clock read by time.Now()
    pc,         \* position of the process in Start / SyncOnce / sync
    w,          \* Watcher.state (in memory)
    ret,        \* what the last call of sync returned
    newFiles,   \* sync: newFiles
    toUpload,   \* sync: toUpload
    toUploadSrc,\* for each entry of toUpload, the path it was extracted from
    excludedNow,\* paths of the candidates of the current pass that were read
                \* and excluded by project path
    i,          \* sync / syncPlans: batch start index (0-based, as in the code)
    attempt,    \* sync / syncPlans: attempt
    uploadErr,  \* sync / syncPlans: uploadErr
    planNew,    \* syncPlans: newFiles
    planUp,     \* syncPlans: toUpload
    calls,      \* the client calls made in the current pass, in order
    passes,     \* number of passes begun
    passStart,  \* what the current pass started from (state, files)
    last,       \* what the pass before the current one started from and left
    acked,      \* paths of the sessions of successful UploadBatch calls of
                \* passes that saved the state
    excluded,   \* paths of the sessions the filter excluded by project path
                \* in passes that ended
    edits,      \* number of modifications made to files by the user so far
    stopped,    \* Watcher.stopCh: "no" while open; once Stop has closed it,
                \* whether Stop was called during a pass ("pass") or not ("idle")
    arg,        \* the input of the function a function specification applies
    res         \* the result of that function, once applied

vars == <<cfg, mode, projectsDir, sessFiles, plansDir, planFiles, stateFile,
          now, pc, w, ret,
          newFiles, toUpload, toUploadSrc, excludedNow, i, attempt, uploadErr,
          planNew,
          planUp, calls, passes, passStart, last, acked, excluded, edits,
          stopped, arg, res>>

-----------------------------------------------------------------------------
(* Bounds of the model *)

MaxRetry == 2
MaxTime == 2
MaxPasses == 2
MaxBigPasses == 1
MaxEdits == 1
MaxSessions == 23

(* Program constants *)

batchSize == 10

-----------------------------------------------------------------------------
(* Strings *)

Tail2(s) == SubSeq(s, 3, Len(s))

\* strings.HasPrefix
HasPrefix(s, p) == Len(s) >= Len(p) /\ SubSeq(s, 1, Len(p)) = p

\* strings.Contains
Contains(s, sub) ==
    \E k \in 1..(Len(s) - Len(sub) + 1) : SubSeq(s, k, k + Len(sub) - 1) = sub

\* strings.ReplaceAll(s, old, new) for a one-character old and new
RECURSIVE ReplaceAllChar(_, _, _)
ReplaceAllChar(s, old, new) ==
    IF s = <<>> THEN <<>>
    ELSE <<IF Head(s) = old THEN new ELSE Head(s)>>
             \o ReplaceAllChar(Tail(s), old, new)

\* strings.ReplaceAll(s, "**", "*"): non-overlapping matches, left to right
RECURSIVE ReplaceStarStar(_)
ReplaceStarStar(s) ==
    IF s = <<>> THEN <<>>
    ELSE IF Len(s) >= 2 /\ s[1] = "*" /\ s[2] = "*"
         THEN <<"*">> \o ReplaceStarStar(Tail2(s))
         ELSE <<Head(s)>> \o ReplaceStarStar(Tail(s))

\* strings.Split(s, sep) for a one-character sep: the parts, empty ones included
RECURSIVE SplitAcc(_, _, _)
SplitAcc(s, sep, cur) ==
    IF s = <<>> THEN <<cur>>
    ELSE IF Head(s) = sep THEN <<cur>> \o SplitAcc(Tail(s), sep, <<>>)
         ELSE SplitAcc(Tail(s), sep, Append(cur, Head(s)))

Split(s, sep) == SplitAcc(s, sep, <<>>)

\* the characters of a pattern or a path, in the order of their code points
Chars ==
    <<" ", "!", "\"", "#", "$", "%", "&", "'", "(", ")", "*", "+", ",", "-",
      ".", "/", "0", "1", "2", "3", "4", "5", "6", "7", "8", "9", ":", ";",
      "<", "=", ">", "?", "@", "A", "B", "C", "D", "E", "F", "G", "H", "I",
      "J", "K", "L", "M", "N", "O", "P", "Q", "R", "S", "T", "U", "V", "W",
      "X", "Y", "Z", "[", "\\", "]", "^", "_", "a", "b", "c", "d", "e",
      "f", "g", "h", "i", "j", "k", "l", "m", "n", "o", "p", "q", "r", "s",
      "t", "u", "v", "w", "x", "y", "z", "{", "|", "}", "~">>

Ord(c) == CHOOSE k \in 1..Len(Chars) : Chars[k] = c

Separator == "/"

BadPattern == [ok |-> FALSE, err |-> TRUE, rest |-> <<>>]

\* filepath.scanChunk: the length of the chunk at the head of a pattern whose
\* leading stars are gone, n the characters scanned so far: the chunk ends
\* before the first '*' outside a class, '\' takes the next character along
RECURSIVE ChunkLen(_, _, _)
ChunkLen(pattern, n, inrange) ==
    IF n >= Len(pattern) THEN Len(pattern)
    ELSE LET c == pattern[n + 1]
         IN  IF c = "\\"
             THEN ChunkLen(pattern, IF n + 1 < Len(pattern) THEN n + 2 ELSE n + 1,
                           inrange)
             ELSE IF c = "[" THEN ChunkLen(pattern, n + 1, TRUE)
             ELSE IF c = "]" THEN ChunkLen(pattern, n + 1, FALSE)
             ELSE IF c = "*" /\ ~inrange THEN n
             ELSE ChunkLen(pattern, n + 1, inrange)

RECURSIVE DropStars(_)
DropStars(pattern) ==
    IF pattern # <<>> /\ Head(pattern) = "*" THEN DropStars(Tail(pattern))
    ELSE pattern

\* filepath.scanChunk: whether the pattern starts with stars, the chunk after
\* them, and the rest of the pattern
scanChunk(pattern) ==
    LET p == DropStars(pattern)
        n == ChunkLen(p, 0, FALSE)
    IN  [star |-> pattern # <<>> /\ Head(pattern) = "*",
         chunk |-> SubSeq(p, 1, n),
         rest |-> SubSeq(p, n + 1, Len(p))]

\* filepath.getEsc: the possibly escaped character at the head of a class
getEsc(chunk) ==
    IF chunk = <<>> \/ Head(chunk) = "-" \/ Head(chunk) = "]"
    THEN [err |-> TRUE, r |-> "", rest |-> <<>>]
    ELSE LET c == IF Head(chunk) = "\\" THEN Tail(chunk) ELSE chunk
         IN  IF c = <<>> \/ Tail(c) = <<>>
             THEN [err |-> TRUE, r |-> "", rest |-> <<>>]
             ELSE [err |-> FALSE, r |-> Head(c), rest |-> Tail(c)]

\* lo <= r && r <= hi; r = "" when the name has no character left
InRange(lo, r, hi) == r # "" /\ Ord(lo) <= Ord(r) /\ Ord(r) <= Ord(hi)

\* filepath.matchChunk, the loop over the ranges of a class: chunk is the
\* pattern after '[' and '^', r the character of the name
RECURSIVE ClassRanges(_, _, _, _)
ClassRanges(chunk, r, nrange, match) ==
    IF chunk # <<>> /\ Head(chunk) = "]" /\ nrange > 0
    THEN [err |-> FALSE, match |-> match, rest |-> Tail(chunk)]
    ELSE LET lo == getEsc(chunk)
         IN  IF lo.err THEN [err |-> TRUE, match |-> FALSE, rest |-> <<>>]
             ELSE IF Head(lo.rest) = "-"
             THEN LET hi == getEsc(Tail(lo.rest))
                  IN  IF hi.err
                      THEN [err |-> TRUE, match |-> FALSE, rest |-> <<>>]
                      ELSE ClassRanges(hi.rest, r, nrange + 1,
                                       match \/ InRange(lo.r, r, hi.r))
             ELSE ClassRanges(lo.rest, r, nrange + 1,
                              match \/ InRange(lo.r, r, lo.r))

\* filepath.matchChunk: whether the chunk matches at the head of s, and the
\* rest of s.  A chunk that has failed is still read to its end, so that a
\* malformed one is reported.
RECURSIVE matchChunk(_, _, _)
matchChunk(chunk, s, failed) ==
    IF chunk = <<>>
    THEN [ok |-> ~failed, err |-> FALSE, rest |-> IF failed THEN <<>> ELSE s]
    ELSE LET f == failed \/ s = <<>>
             c == Head(chunk)
             s1 == IF f THEN s ELSE Tail(s)
         IN  IF c = "["
             THEN LET r == IF f THEN "" ELSE Head(s)
                      negated == Len(chunk) >= 2 /\ chunk[2] = "^"
                      cls == ClassRanges(SubSeq(chunk, IF negated THEN 3 ELSE 2,
                                                Len(chunk)), r, 0, FALSE)
                  IN  IF cls.err THEN BadPattern
                      ELSE matchChunk(cls.rest, s1, f \/ cls.match = negated)
             ELSE IF c = "?"
             THEN matchChunk(Tail(chunk), s1, f \/ Head(s) = Separator)
             ELSE IF c = "\\"
             THEN IF Tail(chunk) = <<>> THEN BadPattern
                  ELSE matchChunk(Tail2(chunk), s1, f \/ chunk[2] # Head(s))
             ELSE matchChunk(Tail(chunk), s1, f \/ c # Head(s))

\* filepath.Match: the pattern matches the whole name.  '*' matches any
\* sequence of non-separator characters, '?' one non-separator character,
\* '[...]' one character of a class, '\c' the character c; a chunk after a
\* star is taken at the first place it matches.  A malformed pattern matches
\* nothing (ErrBadPattern, which isExcluded drops).
RECURSIVE Match(_, _)
RECURSIVE MatchStar(_, _, _)
Match(pattern, name) ==
    IF pattern = <<>> THEN name = <<>>
    ELSE LET sc == scanChunk(pattern)
             m == matchChunk(sc.chunk, name, FALSE)
         IN  IF sc.star /\ sc.chunk = <<>>
             THEN \A k \in 1..Len(name) : name[k] # Separator
             ELSE IF m.ok /\ (m.rest = <<>> \/ sc.rest # <<>>)
             THEN Match(sc.rest, m.rest)
             ELSE IF m.err THEN FALSE
             ELSE IF sc.star THEN MatchStar(sc, name, 0)
             ELSE FALSE

\* the loop of filepath.Match that skips k+1 characters of the name for a star
MatchStar(sc, name, k) ==
    IF k >= Len(name) \/ name[k + 1] = Separator THEN FALSE
    ELSE LET m == matchChunk(sc.chunk, SubSeq(name, k + 2, Len(name)), FALSE)
         IN  IF m.ok
             THEN IF sc.rest = <<>> /\ m.rest # <<>>
                  THEN MatchStar(sc, name, k + 1)
                  ELSE Match(sc.rest, m.rest)
             ELSE IF m.err THEN FALSE
             ELSE MatchStar(sc, name, k + 1)

Last(s) == s[Len(s)]

Range(s) == {s[k] : k \in 1..Len(s)}

Min(a, b) == IF a < b THEN a ELSE b

\* m[k] = v on a Go map
Put(m, k, v) == [x \in (DOMAIN m) \cup {k} |-> IF x = k THEN v ELSE m[x]]

\* strings.Join
RECURSIVE Join(_, _)
Join(parts, sep) ==
    IF parts = <<>> THEN <<>>
    ELSE IF Len(parts) = 1 THEN parts[1]
    ELSE parts[1] \o <<sep>> \o Join(Tail(parts), sep)

UpperCase == <<"A","B","C","D","E","F","G","H","I","J","K","L","M",
               "N","O","P","Q","R","S","T","U","V","W","X","Y","Z">>
LowerCase == <<"a","b","c","d","e","f","g","h","i","j","k","l","m",
               "n","o","p","q","r","s","t","u","v","w","x","y","z">>

\* strings.ToLower on the letters A-Z
ToLower(s) ==
    [k \in 1..Len(s) |->
        IF \E j \in 1..Len(UpperCase) : UpperCase[j] = s[k]
        THEN LowerCase[CHOOSE j \in 1..Len(UpperCase) : UpperCase[j] = s[k]]
        ELSE s[k]]

-----------------------------------------------------------------------------
(* Paths *)

\* filepath.Base: trailing separators stripped, then the last element;
\* "." for the empty path and "/" for a path of separators only
RECURSIVE StripTrailingSlash(_)
StripTrailingSlash(p) ==
    IF p # <<>> /\ Last(p) = "/"
    THEN StripTrailingSlash(SubSeq(p, 1, Len(p) - 1))
    ELSE p

Base(p) ==
    IF p = <<>> THEN <<".">>
    ELSE IF StripTrailingSlash(p) = <<>> THEN <<"/">>
         ELSE Last(Split(StripTrailingSlash(p), "/"))

\* ParseJSONL: the project path decoded from the parent directory name
ProjectPathOf(parentDir) ==
    IF HasPrefix(parentDir, <<"-">>)
    THEN ReplaceAllChar(parentDir, "-", "/")
    ELSE <<>>

\* ParseJSONL: the project name, the last part of the decoded path
ProjectNameOf(parentDir) ==
    IF HasPrefix(parentDir, <<"-">>)
    THEN Last(Split(ProjectPathOf(parentDir), "/"))
    ELSE <<>>

-----------------------------------------------------------------------------
(* Extractor *)

\* A line of a transcript as ParseJSONL meets it.  form is "json" when
\* json.Unmarshal into RawEntry succeeds, "malformed" when it fails, "empty"
\* for an empty line and "toolong" for a line beyond the scanner's buffer.
\* ts is 0 when the line has no timestamp that time.Parse accepts.  content
\* is the "content" of the line's message: a list of blocks (isList), or a
\* value MessageContent.Content cannot take, such as a plain string.
Block(kind, text, name, input) ==
    [kind |-> kind, text |-> text, name |-> name, input |-> input]

Blocks(bs) == [isList |-> TRUE, blocks |-> bs]

PlainContent == [isList |-> FALSE, blocks |-> <<>>]

Usage(in, out) ==
    [present |-> TRUE, InputTokens |-> in, OutputTokens |-> out,
     CacheReadInputTokens |-> 0, CacheCreationInputTokens |-> 0]

NoUsage ==
    [present |-> FALSE, InputTokens |-> 0, OutputTokens |-> 0,
     CacheReadInputTokens |-> 0, CacheCreationInputTokens |-> 0]

Line(form, type, ts, content, usage, model) ==
    [form |-> form, type |-> type, ts |-> ts, content |-> content,
     usage |-> usage, model |-> model]

\* generateTags: the topical tags and their keywords
tagPatterns ==
    { [tag |-> "debugging",
       keywords |-> {<<"e","r","r","o","r">>, <<"b","u","g">>,
                     <<"f","i","x">>, <<"d","e","b","u","g">>}],
      [tag |-> "refactoring",
       keywords |-> {<<"r","e","f","a","c","t","o","r">>,
                     <<"c","l","e","a","n","u","p">>,
                     <<"r","e","s","t","r","u","c","t","u","r","e">>}],
      [tag |-> "feature",
       keywords |-> {<<"i","m","p","l","e","m","e","n","t">>,
                     <<"a","d","d"," ","f","e","a","t","u","r","e">>,
                     <<"n","e","w"," ","f","e","a","t","u","r","e">>}],
      [tag |-> "testing",
       keywords |-> {<<"t","e","s","t">>, <<"s","p","e","c">>,
                     <<"c","o","v","e","r","a","g","e">>}],
      [tag |-> "documentation",
       keywords |-> {<<"d","o","c","u","m","e","n","t">>,
                     <<"r","e","a","d","m","e">>,
                     <<"c","o","m","m","e","n","t">>}] }

\* generateTags: the number of messages whose text is searched
tagMessages == 5

\* every message is searched (C19 fails with it)
AllMessages(msgs) == msgs

\* generateTags: "if i >= 5 { break }"
FirstMessages(msgs) == SubSeq(msgs, 1, Min(tagMessages, Len(msgs)))

\* generateTags: content, the lower-cased texts each followed by a space
RECURSIVE TagContent(_)
TagContent(msgs) ==
    IF msgs = <<>> THEN <<>>
    ELSE ToLower(Head(msgs).Content) \o <<" ">> \o TagContent(Tail(msgs))

ToolTag(name) == [kind |-> "tool", name |-> name]
TopicTag(name) == [kind |-> "topic", name |-> name]

\* generateTags.  The tags are a set here: the slice the code builds has them
\* in the iteration order of two Go maps, which is not fixed.
generateTags(s) ==
    LET content == TagContent(FirstMessages(s.Messages))
    IN  {ToolTag(t) : t \in DOMAIN s.Tools}
        \cup {TopicTag(q.tag) : q \in {r \in tagPatterns :
                  \E kw \in r.keywords : Contains(content, kw)}}

\* ParseJSONL: the text parts of a message
TextParts(blocks) ==
    LET sel == SelectSeq(blocks, LAMBDA b : b.kind = "text")
    IN  [k \in 1..Len(sel) |-> sel[k].text]

\* ParseJSONL: the tool_use blocks with a name
ToolUses(blocks) ==
    SelectSeq(blocks, LAMBDA b : b.kind = "tool_use" /\ b.name # "")

\* only Count is incremented for a use (C29 fails with it)
RECURSIVE CountOnly(_, _)
CountOnly(tools, uses) ==
    IF uses = <<>> THEN tools
    ELSE LET name == Head(uses).name
             stat == IF name \in DOMAIN tools THEN tools[name]
                     ELSE [Count |-> 0, Success |-> 0, Errors |-> 0]
         IN  CountOnly(Put(tools, name, [stat EXCEPT !.Count = @ + 1]),
                       Tail(uses))

\* ParseJSONL: session.Tools[name].Count++ and .Success++ for each use
RECURSIVE CountTools(_, _)
CountTools(tools, uses) ==
    IF uses = <<>> THEN tools
    ELSE LET name == Head(uses).name
             stat == IF name \in DOMAIN tools THEN tools[name]
                     ELSE [Count |-> 0, Success |-> 0, Errors |-> 0]
         IN  CountTools(Put(tools, name,
                            [stat EXCEPT !.Count = @ + 1, !.Success = @ + 1]),
                        Tail(uses))

\* ParseJSONL, case "user", "assistant": acc is the session built so far (s)
\* with firstTs, lastTs, msgSeq and the scanner's error
HandleMessage(acc, line) ==
    LET blocks == IF line.content.isList THEN line.content.blocks ELSE <<>>
        uses == ToolUses(blocks)
        u == line.usage
        s == acc.s
    IN  [acc EXCEPT
          !.msgSeq = @ + 1,
          !.s = [s EXCEPT
            !.TotalMessages = @ + 1,
            !.Tools = CountTools(@, uses),
            !.ToolCalls = @ \o [k \in 1..Len(uses) |->
                                  [MessageSeq |-> acc.msgSeq,
                                   ToolName |-> uses[k].name,
                                   ToolInput |-> uses[k].input,
                                   Success |-> TRUE]],
            !.TotalTokensIn = IF u.present THEN @ + u.InputTokens ELSE @,
            !.TotalTokensOut = IF u.present THEN @ + u.OutputTokens ELSE @,
            !.TokenUsage =
                IF u.present
                THEN Append(@, [MessageSeq |-> acc.msgSeq,
                                Timestamp |-> line.ts,
                                Model |-> line.model,
                                InputTokens |-> u.InputTokens,
                                OutputTokens |-> u.OutputTokens,
                                CacheReadTokens |-> u.CacheReadInputTokens,
                                CacheCreationTokens |->
                                    u.CacheCreationInputTokens])
                ELSE @,
            !.Model = IF line.model # "" THEN line.model ELSE @,
            !.Messages = Append(@, [Seq |-> acc.msgSeq, Timestamp |-> line.ts,
                                    Role |-> line.type,
                                    Content |-> Join(TextParts(blocks), "\n")])]]

\* a line is taken whatever its form (C16 fails with it)
UnmarshalsAlways(line) == line.form \in {"json", "malformed"}

\* ParseJSONL: json.Unmarshal(line, &entry) returns no error
Unmarshals(line) == line.form = "json"

\* ParseJSONL: the scanner loop from line k on
RECURSIVE ScanLines(_, _, _)
ScanLines(lines, k, acc) ==
    IF k > Len(lines) THEN acc
    ELSE LET line == lines[k]
             seen == IF line.ts # 0
                     THEN [acc EXCEPT !.firstTs = IF @ = 0 THEN line.ts ELSE @,
                                      !.lastTs = line.ts]
                     ELSE acc
         IN  IF line.form = "toolong"
             THEN [acc EXCEPT !.err = "token too long"]
             ELSE IF line.form = "empty" \/ ~Unmarshals(line)
             THEN ScanLines(lines, k + 1, acc)
             ELSE IF line.type \in {"user", "assistant"}
             THEN ScanLines(lines, k + 1, HandleMessage(seen, line))
             ELSE ScanLines(lines, k + 1, seen)

\* ParseJSONL on a file f = [dir, name, lines, readable] up to the end of the
\* scanner loop
ScanFile(f) ==
    ScanLines(f.lines, 1,
        [s |-> [ID             |-> f.name,
                ProjectName    |-> ProjectNameOf(f.dir),
                ProjectPath    |-> ProjectPathOf(f.dir),
                StartedAt      |-> 0,
                EndedAt        |-> 0,
                TotalMessages  |-> 0,
                TotalTokensIn  |-> 0,
                TotalTokensOut |-> 0,
                Model          |-> "",
                Tools          |-> <<>>,
                Tags           |-> {},
                Messages       |-> <<>>,
                TokenUsage     |-> <<>>,
                ToolCalls      |-> <<>>],
         firstTs |-> 0, lastTs |-> 0, msgSeq |-> 0, err |-> "nil"])

\* ParseJSONL: the session it returns for a file that could be opened
ParseJSONL(f) ==
    LET r == ScanFile(f)
        s == [r.s EXCEPT !.StartedAt = r.firstTs, !.EndedAt = r.lastTs]
    IN  [s EXCEPT !.Tags = generateTags(s)]

\* ParseJSONL: the error it returns
ParseJSONLErr(f) == IF ~f.readable THEN "open" ELSE ScanFile(f).err

\* unicode.IsSpace: the white space characters.  Those that cannot be written
\* in a string of this module are named by their code point.
WhiteSpace ==
    {"\t", "\n", "U+000B", "\f", "\r", " ", "U+0085", "U+00A0", "U+1680",
     "U+2000", "U+2001", "U+2002", "U+2003", "U+2004", "U+2005", "U+2006",
     "U+2007", "U+2008", "U+2009", "U+200A", "U+2028", "U+2029", "U+202F",
     "U+205F", "U+3000"}

\* strings.TrimSpace: s without its leading and trailing white space
RECURSIVE TrimSpace(_)
TrimSpace(s) ==
    IF s = <<>> THEN s
    ELSE IF Head(s) \in WhiteSpace THEN TrimSpace(Tail(s))
    ELSE IF Last(s) \in WhiteSpace THEN TrimSpace(SubSeq(s, 1, Len(s) - 1))
    ELSE s

\* the name of a plan file as text
NameText(name) == <<<<"1", "2", "3", "4", "5", "6", "7", "8", "9">>[name]>>

\* ParsePlan: the title is the rest of the first line that starts with "# ",
\* without the space around it; the name when no line does
RECURSIVE PlanTitle(_, _)
PlanTitle(lines, name) ==
    IF lines = <<>> THEN NameText(name)
    ELSE IF HasPrefix(Head(lines), <<"#", " ">>)
         THEN TrimSpace(SubSeq(Head(lines), 3, Len(Head(lines))))
         ELSE PlanTitle(Tail(lines), name)

\* ParsePlan on a readable plan file p = [name, mtime, text, lines, readable]:
\* lines are the lines of the content, text counts its revisions
ParsePlan(p) ==
    [Name |-> p.name, Title |-> PlanTitle(p.lines, p.name),
     Content |-> p.text, CreatedAt |-> p.mtime]

-----------------------------------------------------------------------------
(* Privacy filter *)

NilSession == [nil |-> TRUE]

\* Filter.isExcluded
isExcluded(patterns, projectPath) ==
    \E k \in 1..Len(patterns) :
        \/ Match(patterns[k], projectPath)
        \/ /\ Contains(patterns[k], <<"*", "*">>)
           /\ \E part \in Range(Split(projectPath, "/")) :
                  Match(ReplaceStarStar(patterns[k]), part)

\* a copy that is the session itself (C13 fails with it)
UnfilteredCopy(sharing, s) == s

\* Filter.Apply, lines 400-430: the filtered copy of a session
FilteredCopy(sharing, s) ==
    [ID             |-> s.ID,
     ProjectName    |-> IF sharing.AnonymizePaths THEN Base(s.ProjectPath)
                        ELSE s.ProjectPath,
     ProjectPath    |-> <<>>,
     StartedAt      |-> s.StartedAt,
     EndedAt        |-> s.EndedAt,
     TotalMessages  |-> s.TotalMessages,
     TotalTokensIn  |-> s.TotalTokensIn,
     TotalTokensOut |-> s.TotalTokensOut,
     Model          |-> s.Model,
     Tools          |-> s.Tools,
     Tags           |-> s.Tags,
     Messages       |-> IF sharing.Level = "full" THEN s.Messages ELSE <<>>,
     TokenUsage     |-> <<>>,
     ToolCalls      |-> <<>>]

\* Filter.Apply
Apply(sharing, s) ==
    IF isExcluded(sharing.ExcludeProjects, s.ProjectPath) THEN NilSession
    ELSE IF sharing.Level = "none" THEN NilSession
    ELSE FilteredCopy(sharing, s)

-----------------------------------------------------------------------------
(* Sync state *)

\* State with both maps made and nothing recorded; time 0 is the zero time.Time
EmptyState == [SyncedSessions |-> <<>>, SyncedPlans |-> <<>>, LastSync |-> 0]

\* Watcher.loadState on a watcher that holds state: the state it leaves in
\* w.state and whether it returned an error.  A missing file is an empty state
\* without error.  A file that cannot be read ("unreadable") returns the error
\* before w.state is touched.  Otherwise w.state is replaced by an empty state
\* and json.Unmarshal fills it: it rejects bytes that are not JSON ("corrupt")
\* before it stores anything, and for JSON with a value of the wrong type
\* ("mistyped") it stores what does decode, file.data, and returns the error.
loadState(file, state) ==
    IF file.status = "missing" THEN [state |-> EmptyState, err |-> FALSE]
    ELSE IF file.status = "unreadable" THEN [state |-> state, err |-> TRUE]
    ELSE IF file.status = "ok" THEN [state |-> file.data, err |-> FALSE]
    ELSE IF file.status = "mistyped" THEN [state |-> file.data, err |-> TRUE]
    ELSE [state |-> EmptyState, err |-> TRUE]

\* after an error of loadState the pass goes on with the state the watcher
\* held before (C22 fails with it)
LoadOrKeep(file) ==
    IF loadState(file, w).err THEN w ELSE loadState(file, w).state

\* Start and SyncOnce: loadState, and an empty state when it returned an
\* error, whatever loadState left in w.state
LoadOrEmpty(file) ==
    IF loadState(file, w).err THEN EmptyState ELSE loadState(file, w).state

\* Watcher.saveState.  os.WriteFile truncates the file before it writes, so a
\* failed save leaves the old file (the directory or the file could not be
\* opened) or a truncated one (the write failed).
SaveOutcomes == {"ok", "failed", "truncated"}

\* a save that keeps what the file holds and adds the entries of the state
\* (C37 fails with it)
saveStateMerged(file, state, outcome) ==
    IF outcome = "ok"
    THEN LET old == IF file.status = "ok" THEN file.data ELSE EmptyState
             both(m, n) == [x \in (DOMAIN m) \cup (DOMAIN n) |->
                               IF x \in DOMAIN n THEN n[x] ELSE m[x]]
         IN  [status |-> "ok",
              data |-> [state EXCEPT
                          !.SyncedSessions = both(old.SyncedSessions, @),
                          !.SyncedPlans = both(old.SyncedPlans, @)]]
    ELSE IF outcome = "truncated" THEN [status |-> "corrupt", data |-> EmptyState]
    ELSE file

saveState(file, state, outcome) ==
    IF outcome = "ok" THEN [status |-> "ok", data |-> state]
    ELSE IF outcome = "truncated" THEN [status |-> "corrupt", data |-> EmptyState]
    ELSE file

-----------------------------------------------------------------------------
(* Sessions of a pass *)

PathOf(f) == [dir |-> f.dir, name |-> f.name]

\* Watcher.findSessions: every *.jsonl path under projects, in walk order
findSessions(files) == [k \in 1..Len(files) |-> PathOf(files[k])]

\* the callback findSessions and findPlans pass to filepath.WalkDir: what it
\* returns for an entry, given whether the walk met an error at that entry
WalkFn(entryErr) == IF entryErr THEN "nil" ELSE "nil"

\* the error of findSessions.  WalkDir on a root that cannot be examined calls
\* the callback with that error and returns what the callback returns.
findSessionsErr(rootOk) == IF rootOk THEN WalkFn(FALSE) ELSE WalkFn(TRUE)

\* sync: the session ID of a path is the base name without ".jsonl"
SessionID(path) == path.name

\* the candidates when the session map is not consulted (C2 fails with it)
AllSessionFiles(files, state) == findSessions(files)

\* sync: "Filter to new sessions only"
NewSessionFiles(files, state) ==
    SelectSeq(findSessions(files),
              LAMBDA f : SessionID(f) \notin DOMAIN state.SyncedSessions)

FileAt(files, path) ==
    CHOOSE f \in Range(files) : PathOf(f) = path

\* sync: the parse and filter loop over newFiles from index k on.  acc holds
\* state (w.state), toUpload and the source path of each entry of toUpload.
RECURSIVE ParseLoop(_, _, _, _, _, _)
ParseLoop(paths, k, files, sharing, t, acc) ==
    IF k > Len(paths) THEN acc
    ELSE LET f == FileAt(files, paths[k])
             session == ParseJSONL(f)
             filtered == Apply(sharing, session)
         IN  IF ParseJSONLErr(f) # "nil"
             THEN ParseLoop(paths, k + 1, files, sharing, t, acc)
             ELSE IF filtered = NilSession
             THEN ParseLoop(paths, k + 1, files, sharing, t,
                     [acc EXCEPT !.state.SyncedSessions =
                                     Put(@, session.ID, t)])
             ELSE ParseLoop(paths, k + 1, files, sharing, t,
                     [acc EXCEPT !.toUpload = Append(@, filtered),
                                 !.src = Append(@, paths[k])])

\* sync: batch := toUpload[i:end]
BatchAt(list, start) == SubSeq(list, start + 1, Min(start + batchSize, Len(list)))

\* a successful call marks every session of the upload list (C24 fails with
\* it)
MarkWholeList(state, batch, n, t) ==
    LET marked == {toUpload[j].ID : j \in 1..Len(toUpload)}
    IN  [state EXCEPT !.SyncedSessions =
            [x \in (DOMAIN @) \cup marked |-> IF x \in marked THEN t ELSE @[x]]]

\* sync: the loop over the responses of a successful UploadBatch, which marks
\* batch[j] for each response j.  More responses than the batch has items make
\* batch[j] fault, after every item of the batch was marked.
MarkSessions(state, batch, n, t) ==
    LET marked == {batch[j].ID : j \in 1..Min(n, Len(batch))}
    IN  [state EXCEPT !.SyncedSessions =
            [x \in (DOMAIN @) \cup marked |-> IF x \in marked THEN t ELSE @[x]]]

\* syncPlans: the same loop for a successful UploadPlanBatch
MarkPlans(state, batch, n, t) ==
    LET marked == {batch[j].Name : j \in 1..Min(n, Len(batch))}
    IN  [state EXCEPT !.SyncedPlans =
            [x \in (DOMAIN @) \cup marked |-> IF x \in marked THEN t ELSE @[x]]]

\* the loop over the responses faults: the index into batch is past its end,
\* or the record is null and resp.Warnings is read through a nil pointer
\* (after batch[j] was marked)
Faults(batch, r) == r.null # 0 \/ r.n > Len(batch)

\* a plan test that also takes a plan modified at its recorded time (C7 fails
\* with it)
PlanIsNewOrSameTime(state, p) ==
    \/ p.name \notin DOMAIN state.SyncedPlans
    \/ p.mtime >= state.SyncedPlans[p.name]

\* syncPlans: "Check if plan is new or modified since last sync"
PlanIsNew(state, p) ==
    \/ p.name \notin DOMAIN state.SyncedPlans
    \/ p.mtime > state.SyncedPlans[p.name]

\* syncPlans: newFiles; a plan whose os.Stat fails is passed over
NewPlanFiles(files, state) ==
    LET sel == SelectSeq(files, LAMBDA p : p.stat /\ PlanIsNew(state, p))
    IN  [k \in 1..Len(sel) |-> sel[k].name]

PlanAt(files, name) == CHOOSE p \in Range(files) : p.name = name

\* syncPlans: the parse loop; a plan that cannot be read is skipped
ParsePlans(names, files) ==
    LET ok == SelectSeq(names, LAMBDA n : PlanAt(files, n).readable)
    IN  [k \in 1..Len(ok) |-> ParsePlan(PlanAt(files, ok[k]))]

-----------------------------------------------------------------------------
(* Delivery client *)

\* client.UploadBatch / UploadPlanBatch: the errors the engine can get back
\* (status 401, and any other failure)
UploadErrors == {"unauthorized", "server error"}

\* the numbers of acknowledgment records a successful response can carry for
\* a batch of len items: one too few, one per item, one too many
RespLens(len) == {len - 1, len, len + 1} \cap Nat

\* the answers of a successful call: n records, none of them null (null = 0)
\* or the last of them null (null = n)
Answers(len) ==
    {[n |-> n, null |-> 0] : n \in RespLens(len)}
        \cup {[n |-> n, null |-> n] : n \in {len - 1, len} \cap (1..len)}

-----------------------------------------------------------------------------
(* Initial states *)

DirPersonal == <<"-","u","-","p","e","r","s","o","n","a","l","-","x">>
DirPrivate == <<"-","u","-","p","r","i","v","a","t","e","-","x">>
DirSecret == <<"-","u","-","s","e","c","r","e","t","-","x">>
DirWork == <<"-","u","-","w">>

PatPersonal == <<"*","*","/","p","e","r","s","o","n","a","l","/","*","*">>
PatSecret == <<"*","*","/","s","e","c","r","e","t","-","*">>
PatPrivate == <<"/","u","/","p","r","i","v","a","t","e","/","*">>

ReadmePatterns == <<PatPersonal, PatSecret, PatPrivate>>

\* a malformed pattern, a pattern with an escape and a negated class, and a
\* pattern with a range
PatBad == <<"/","u","/","w","[">>
PatEscaped == <<"/","u","/","\\","p","[","^","r","]","*","/","x">>
PatClass == <<"/","u","/","[","p","-","w","]">>

ClassPatterns == <<PatBad, PatEscaped, PatClass>>

\* a turn of the user with one text block and its token usage
UserLine == Line("json", "user", 0, Blocks(<<Block("text", <<"x">>, "", "")>>),
                 Usage(1, 0), "")

SessionFile(dir, name, readable) ==
    [dir |-> dir, name |-> name, lines |-> <<UserLine>>, readable |-> readable]

\* the lines of a plan with headings, and of a plan without one
HeadedLines ==
    << <<"s", "\r">>, <<"#", " ", "\t", " ", "P", " ", "\r">>,
       <<"#", " ", "Q", "\r">> >>
PlainLines == << <<"#", "x">>, <<"s">> >>

\* a plan file; stat says whether os.Stat succeeds on it
PlanFile(name, readable) ==
    [name |-> name, mtime |-> 1, text |-> 0,
     lines |-> IF name = 1 THEN HeadedLines ELSE PlainLines,
     readable |-> readable, stat |-> TRUE]

\* an entry of the plans directory that findPlans lists and os.Stat fails on:
\* a link named *.md whose target is gone
DanglingPlan(name) ==
    [name |-> name, mtime |-> 0, text |-> 0, lines |-> <<>>,
     readable |-> FALSE, stat |-> FALSE]

\* two transcripts of the same name in two projects, one of them excluded by
\* the README's third pattern
WorldSameName ==
    <<SessionFile(DirPrivate, 1, TRUE), SessionFile(DirWork, 1, TRUE),
      SessionFile(DirWork, 2, TRUE)>>

\* the projects of the README's first two patterns, and two transcripts that
\* cannot be read, one of them with the name of a transcript of another
\* project
WorldReadme ==
    <<SessionFile(DirPersonal, 1, TRUE), SessionFile(DirSecret, 2, TRUE),
      SessionFile(DirWork, 1, FALSE), SessionFile(DirWork, 3, FALSE)>>

\* one project with n transcripts
BigWorld(n) == [k \in 1..n |-> SessionFile(DirWork, k, TRUE)]

BigSizes == {batchSize, batchSize + 1, MaxSessions}

Sharing(level, excl, anon) ==
    [Level |-> level, ExcludeProjects |-> excl, AnonymizePaths |-> anon]

\* the installations the small worlds are run with
Scenarios ==
    { [files |-> WorldSameName, projectsDir |-> TRUE, plansDir |-> TRUE,
       plans |-> <<PlanFile(1, TRUE), PlanFile(2, FALSE)>>, mode |-> "once",
       sharing |-> Sharing("metadata", ReadmePatterns, TRUE)],
      [files |-> WorldReadme, projectsDir |-> TRUE, plansDir |-> TRUE,
       plans |-> <<PlanFile(1, TRUE), PlanFile(2, TRUE), DanglingPlan(3)>>,
       mode |-> "daemon",
       sharing |-> Sharing("full", ReadmePatterns, FALSE)],
      [files |-> WorldSameName, projectsDir |-> TRUE, plansDir |-> TRUE,
       plans |-> <<PlanFile(1, TRUE)>>, mode |-> "once",
       sharing |-> Sharing("none", <<>>, TRUE)],
      [files |-> WorldReadme, projectsDir |-> TRUE, plansDir |-> FALSE,
       plans |-> <<>>, mode |-> "daemon",
       sharing |-> Sharing("metadata", <<>>, TRUE)],
      [files |-> <<>>, projectsDir |-> FALSE, plansDir |-> TRUE,
       plans |-> <<PlanFile(1, TRUE)>>, mode |-> "once",
       sharing |-> Sharing("metadata", <<>>, TRUE)] }

\* sync.interval: the default, and values Validate accepts as well.  Only
\* Start reads the interval.
DefaultInterval == 300
Intervals == {-1, 0, DefaultInterval}
IntervalsOf(m) == IF m = "daemon" THEN Intervals ELSE {DefaultInterval}

\* no function is being applied
NoArg == [fn |-> "none"]
NoRes == [fn |-> "none"]

NoPass == [state |-> EmptyState, sessFiles |-> <<>>, planFiles |-> <<>>,
           plansDir |-> FALSE]

InitProcess ==
    /\ now = 1
    /\ pc = "idle"
    /\ stateFile = [status |-> "missing", data |-> EmptyState]
    /\ w = EmptyState
    /\ ret = "nil"
    /\ newFiles = <<>>
    /\ toUpload = <<>>
    /\ toUploadSrc = <<>>
    /\ excludedNow = {}
    /\ i = 0
    /\ attempt = 1
    /\ uploadErr = ""
    /\ planNew = <<>>
    /\ planUp = <<>>
    /\ calls = <<>>
    /\ passStart = NoPass
    /\ last = [n |-> 0, pre |-> NoPass, post |-> EmptyState, save |-> "ok",
               exact |-> TRUE]
    /\ acked = {}
    /\ excluded = {}
    /\ stopped = "no"

InitSmall ==
    /\ InitProcess
    /\ \E sc \in Scenarios, retry \in 0..MaxRetry :
          /\ sessFiles = sc.files
          /\ projectsDir = sc.projectsDir
          /\ plansDir = sc.plansDir
          /\ planFiles = sc.plans
          /\ mode = sc.mode
          /\ \E interval \in IntervalsOf(sc.mode) :
                cfg = [Sharing |-> sc.sharing,
                       Sync |-> [Interval |-> interval,
                                 RetryAttempts |-> retry]]
    /\ passes = 0
    /\ edits = 0
    /\ arg = NoArg
    /\ res = NoRes

InitBig ==
    /\ InitProcess
    /\ sessFiles \in {BigWorld(n) : n \in BigSizes}
    /\ projectsDir = TRUE
    /\ plansDir = FALSE
    /\ planFiles = <<>>
    /\ mode = "once"
    /\ \E retry \in 0..MaxRetry :
          cfg = [Sharing |-> Sharing("metadata", <<>>, TRUE),
                 Sync |-> [Interval |-> DefaultInterval,
                           RetryAttempts |-> retry]]
    /\ passes = MaxPasses - MaxBigPasses
    /\ edits = MaxEdits
    /\ arg = NoArg
    /\ res = NoRes

Init == InitSmall \/ InitBig

-----------------------------------------------------------------------------
(* Actions of the agent *)

funVars == <<arg, res>>
envVars == <<projectsDir, sessFiles, plansDir, planFiles, edits, stopped,
             funVars>>
sessVars == <<newFiles, toUpload, toUploadSrc, excludedNow>>
planVars == <<planNew, planUp>>
ghostVars == <<last, acked, excluded>>

\* entry into sync with w.state = st
BeginPass(st) ==
    /\ passes < MaxPasses
    /\ passes' = passes + 1
    /\ w' = st
    /\ pc' = "sync"
    /\ passStart' = [state |-> st, sessFiles |-> sessFiles,
                     planFiles |-> planFiles, plansDir |-> plansDir]
    /\ calls' = <<>>
    /\ newFiles' = <<>>
    /\ toUpload' = <<>>
    /\ toUploadSrc' = <<>>
    /\ excludedNow' = {}
    /\ planNew' = <<>>
    /\ planUp' = <<>>
    /\ i' = 0
    /\ attempt' = 1
    /\ uploadErr' = ""
    /\ UNCHANGED <<cfg, mode, ret, stateFile, now>>
    /\ UNCHANGED <<envVars, ghostVars>>

\* Watcher.SyncOnce up to its call of sync
SyncOnce ==
    /\ pc = "idle"
    /\ mode = "once"
    /\ BeginPass(LoadOrEmpty(stateFile))

\* Watcher.Start up to its initial call of sync
Start ==
    /\ pc = "idle"
    /\ mode = "daemon"
    /\ BeginPass(LoadOrEmpty(stateFile))

\* the process can return from Start by its own position: leaving Start without
\* having reached the select (C12 fails with it)
AnyPosition == pc \in {"sync", "upload", "plans", "planupload", "finish", "wait"}

\* Watcher.Start, lines 72-73: the process is at the select, which it reaches
\* only when a call of sync has returned
AtSelect == pc = "wait"

\* Watcher.Start: case <-ticker.C.  When the stop channel is closed as well,
\* select takes either case.
TickerFire ==
    /\ AtSelect
    /\ BeginPass(w)

\* Watcher.Start: case <-w.stopCh
StartReturn ==
    /\ AtSelect
    /\ stopped # "no"
    /\ pc' = "returned"
    /\ UNCHANGED <<cfg, mode, ret, stateFile, now, w, i, attempt, uploadErr,
                   calls, passes, passStart>>
    /\ UNCHANGED <<sessVars, planVars, envVars, ghostVars>>

\* where the process is when sync has returned: SyncOnce returns to its
\* caller, Start goes to its select
\* time.NewTicker panics for an interval that is not positive
TickerFaults(interval) == interval <= 0

\* Start, lines 62-68: when the initial call of sync has returned the ticker
\* is made, before the select is reached
Returned ==
    IF mode = "once" THEN "idle"
    ELSE IF last.n = 0 /\ TickerFaults(cfg.Sync.Interval) THEN "tickerpanic"
    ELSE "wait"

\* the paths of the candidates that were read and for which Filter.Apply
\* returned nil because Filter.isExcluded matched their project path
ExcludedIn(paths, files, sharing) ==
    {p \in Range(paths) :
        /\ ParseJSONLErr(FileAt(files, p)) = "nil"
        /\ isExcluded(sharing.ExcludeProjects, ProjectPathOf(p.dir))}

\* sync, lines 103-143: find the files, keep the new ones, parse and filter
Discover ==
    /\ pc = "sync"
    /\ IF findSessionsErr(projectsDir) # "nil"
       THEN /\ ret' = findSessionsErr(projectsDir)
            /\ pc' = Returned
            /\ last' = [n |-> last.n + 1, pre |-> passStart, post |-> w,
                         save |-> "none", exact |-> TRUE]
            /\ UNCHANGED <<w, sessVars>>
       ELSE LET cand == NewSessionFiles(sessFiles, w)
                r == ParseLoop(cand, 1, sessFiles, cfg.Sharing, now,
                               [state |-> w, toUpload |-> <<>>, src |-> <<>>])
            IN  /\ newFiles' = cand
                /\ w' = r.state
                /\ toUpload' = r.toUpload
                /\ toUploadSrc' = r.src
                /\ excludedNow' = ExcludedIn(cand, sessFiles, cfg.Sharing)
                /\ pc' = IF Len(r.toUpload) > 0 THEN "upload" ELSE "plans"
                /\ UNCHANGED <<ret, last>>
    /\ i' = 0
    /\ attempt' = 1
    /\ uploadErr' = ""
    /\ UNCHANGED <<cfg, mode, stateFile, now, planNew, planUp, calls,
                   passes, passStart, acked, excluded>>
    /\ UNCHANGED envVars

\* an unauthorized error ends the retry loop (C26 fails with it)
NoRetryWhenUnauthorized(e, k) ==
    IF e = "unauthorized" THEN cfg.Sync.RetryAttempts + 1 ELSE k + 1

\* sync and syncPlans: attempt++ after a failed attempt, whatever the error
NextAttempt(e, k) == k + 1

Call(kind, batch, src, ok, r) ==
    [kind |-> kind, batch |-> batch, src |-> src, ok |-> ok, n |-> r.n,
     null |-> r.null]

\* no answer was decoded
NoAnswer == [n |-> 0, null |-> 0]

AfterBatch(list, done) ==
    IF i + batchSize < Len(list) THEN pc ELSE done

\* time.Sleep: the clock is later when the sleep returns
Sleep(t) == IF t < MaxTime THEN t + 1 ELSE t

\* sync, lines 156-172: one attempt of the batch at i
UploadAttempt ==
    /\ pc = "upload"
    /\ attempt <= cfg.Sync.RetryAttempts
    /\ LET batch == BatchAt(toUpload, i)
           src == BatchAt(toUploadSrc, i)
       IN  \/ \E r \in Answers(Len(batch)) :
                 /\ calls' = Append(calls, Call("sessions", batch, src, TRUE, r))
                 /\ w' = MarkSessions(w, batch, r.n, now)
                 /\ IF Faults(batch, r)
                    THEN /\ pc' = "crashed"
                         /\ UNCHANGED <<i, attempt, uploadErr>>
                    ELSE /\ pc' = AfterBatch(toUpload, "plans")
                         /\ i' = i + batchSize
                         /\ attempt' = 1
                         /\ uploadErr' = ""
                 /\ now' = now
           \/ \E e \in UploadErrors :
                 /\ calls' = Append(calls, Call("sessions", batch, src, FALSE, NoAnswer))
                 /\ uploadErr' = e
                 /\ attempt' = NextAttempt(e, attempt)
                 /\ now' = Sleep(now)
                 /\ UNCHANGED <<w, pc, i>>
    /\ UNCHANGED <<cfg, mode, ret, stateFile, passes, passStart>>
    /\ UNCHANGED <<sessVars, planVars, envVars, ghostVars>>

\* sync, lines 156 and 174-177: no attempt is left for the batch at i
BatchFailed ==
    /\ pc = "upload"
    /\ attempt > cfg.Sync.RetryAttempts
    /\ pc' = AfterBatch(toUpload, "plans")
    /\ i' = i + batchSize
    /\ attempt' = 1
    /\ uploadErr' = ""
    /\ UNCHANGED <<cfg, mode, ret, stateFile, now, w, calls, passes, passStart>>
    /\ UNCHANGED <<sessVars, planVars, envVars, ghostVars>>

\* syncPlans, lines 191-239: find the plans, keep the new and updated ones,
\* parse them
SyncPlans ==
    /\ pc = "plans"
    /\ IF ~plansDir
       THEN /\ planNew' = <<>>
            /\ planUp' = <<>>
            /\ pc' = "finish"
       ELSE /\ planNew' = NewPlanFiles(planFiles, w)
            /\ planUp' = ParsePlans(planNew', planFiles)
            /\ pc' = IF Len(planUp') > 0 THEN "planupload" ELSE "finish"
    /\ i' = 0
    /\ attempt' = 1
    /\ uploadErr' = ""
    /\ UNCHANGED <<cfg, mode, ret, stateFile, now, w, calls, passes, passStart>>
    /\ UNCHANGED <<sessVars, envVars, ghostVars>>

\* syncPlans, lines 251-267: one attempt of the plan batch at i
PlanUploadAttempt ==
    /\ pc = "planupload"
    /\ attempt <= cfg.Sync.RetryAttempts
    /\ LET batch == BatchAt(planUp, i)
       IN  \/ \E r \in Answers(Len(batch)) :
                 /\ calls' = Append(calls, Call("plans", batch, <<>>, TRUE, r))
                 /\ w' = MarkPlans(w, batch, r.n, now)
                 /\ IF Faults(batch, r)
                    THEN /\ pc' = "crashed"
                         /\ UNCHANGED <<i, attempt, uploadErr>>
                    ELSE /\ pc' = AfterBatch(planUp, "finish")
                         /\ i' = i + batchSize
                         /\ attempt' = 1
                         /\ uploadErr' = ""
                 /\ now' = now
           \/ \E e \in UploadErrors :
                 /\ calls' = Append(calls, Call("plans", batch, <<>>, FALSE, NoAnswer))
                 /\ uploadErr' = e
                 /\ attempt' = NextAttempt(e, attempt)
                 /\ now' = Sleep(now)
                 /\ UNCHANGED <<w, pc, i>>
    /\ UNCHANGED <<cfg, mode, ret, stateFile, passes, passStart>>
    /\ UNCHANGED <<sessVars, planVars, envVars, ghostVars>>

\* syncPlans, lines 251 and 269-272: no attempt is left for the plan batch at i
PlanBatchFailed ==
    /\ pc = "planupload"
    /\ attempt > cfg.Sync.RetryAttempts
    /\ pc' = AfterBatch(planUp, "finish")
    /\ i' = i + batchSize
    /\ attempt' = 1
    /\ uploadErr' = ""
    /\ UNCHANGED <<cfg, mode, ret, stateFile, now, w, calls, passes, passStart>>
    /\ UNCHANGED <<sessVars, planVars, envVars, ghostVars>>

\* the paths of the sessions that successful UploadBatch calls carried
AckedIn(cs) ==
    UNION {Range(cs[k].src) : k \in {j \in 1..Len(cs) :
                                       cs[j].kind = "sessions" /\ cs[j].ok}}

\* every successful response carried one record per item of its batch
Exact(cs) == \A k \in 1..Len(cs) : cs[k].ok => cs[k].n = Len(cs[k].batch)

\* sync, lines 186-187: set LastSync, save the state, return
Finish ==
    /\ pc = "finish"
    /\ \E outcome \in SaveOutcomes :
          /\ w' = [w EXCEPT !.LastSync = now]
          /\ stateFile' = saveState(stateFile, w', outcome)
          /\ last' = [n |-> last.n + 1, pre |-> passStart, post |-> w',
                       save |-> outcome, exact |-> Exact(calls)]
          /\ acked' = IF outcome = "ok" THEN acked \cup AckedIn(calls)
                      ELSE acked
          /\ ret' = IF outcome = "ok" THEN "nil" ELSE "save error"
    /\ excluded' = excluded \cup excludedNow
    /\ pc' = Returned
    /\ UNCHANGED <<cfg, mode, now, calls, passes, passStart, i, attempt,
                   uploadErr>>
    /\ UNCHANGED <<sessVars, planVars, envVars>>

-----------------------------------------------------------------------------
(* Actions of the environment.  Time passes while the agent sleeps or waits   *)
(* for its next pass; the steps of a pass take no time on this clock.         *)

agentVars == <<cfg, mode, ret, stateFile, pc, w, i, attempt, uploadErr, calls,
               passes, passStart>>

Between == pc \in {"idle", "wait"}

\* time passes between two passes
Tick ==
    /\ Between
    /\ now < MaxTime
    /\ now' = now + 1
    /\ UNCHANGED <<agentVars, sessVars, planVars, envVars, ghostVars>>

\* cmdRun: a SIGINT or SIGTERM arrives and the signal goroutine calls Stop,
\* once, at any time while Start has not returned
Stop ==
    /\ mode = "daemon"
    /\ stopped = "no"
    /\ pc \notin {"returned", "crashed", "tickerpanic"}
    /\ stopped' = IF Between THEN "idle" ELSE "pass"
    /\ UNCHANGED <<projectsDir, sessFiles, plansDir, planFiles, edits, now,
                   funVars>>
    /\ UNCHANGED <<agentVars, sessVars, planVars, ghostVars>>

\* the assistant appends to a transcript
EditSession ==
    /\ Between
    /\ edits < MaxEdits
    /\ \E k \in 1..Len(sessFiles) :
          sessFiles' = [sessFiles EXCEPT ![k].lines = Append(@, UserLine)]
    /\ edits' = edits + 1
    /\ UNCHANGED <<projectsDir, plansDir, planFiles, now, stopped, funVars>>
    /\ UNCHANGED <<agentVars, sessVars, planVars, ghostVars>>

\* the user rewrites a plan, between two passes or while the plans that were
\* read are being delivered: new content, modification time now
EditPlan ==
    /\ Between \/ pc = "planupload"
    /\ edits < MaxEdits
    /\ \E k \in 1..Len(planFiles) :
          /\ planFiles[k].stat
          /\ planFiles' = [planFiles EXCEPT ![k].text = @ + 1,
                                            ![k].mtime = now]
    /\ edits' = edits + 1
    /\ UNCHANGED <<projectsDir, sessFiles, plansDir, now, stopped, funVars>>
    /\ UNCHANGED <<agentVars, sessVars, planVars, ghostVars>>

Next ==
    \/ SyncOnce
    \/ Start
    \/ TickerFire
    \/ StartReturn
    \/ Discover
    \/ UploadAttempt
    \/ BatchFailed
    \/ SyncPlans
    \/ PlanUploadAttempt
    \/ PlanBatchFailed
    \/ Finish
    \/ Tick
    \/ Stop
    \/ EditSession
    \/ EditPlan

Spec == Init /\ [][Next]_vars

-----------------------------------------------------------------------------
(* Function specifications: the inputs of a function are drawn in the initial *)
(* state and one action applies the function; the agent is at rest.           *)

engineVars == <<cfg, mode, projectsDir, sessFiles, plansDir, planFiles,
                stateFile, now, pc, w, ret, newFiles, toUpload, toUploadSrc,
                excludedNow, i, attempt, uploadErr, planNew, planUp, calls,
                passes, passStart, last, acked, excluded, edits, stopped>>

AtRest ==
    /\ InitProcess
    /\ cfg = [Sharing |-> Sharing("metadata", <<>>, TRUE),
              Sync |-> [Interval |-> DefaultInterval, RetryAttempts |-> 1]]
    /\ mode = "once"
    /\ projectsDir = TRUE
    /\ sessFiles = <<>>
    /\ plansDir = FALSE
    /\ planFiles = <<>>
    /\ passes = 0
    /\ edits = 0

\* transcripts: two text turns with a tool use, token usage and timestamps;
\* one turn; no line at all
TwoTurns ==
    <<Line("json", "user", 1,
           Blocks(<<Block("text", <<"F","i","x">>, "", "")>>), NoUsage, ""),
      Line("json", "assistant", 2,
           Blocks(<<Block("text", <<"o","k">>, "", ""),
                    Block("tool_use", <<>>, "Bash", "ls")>>),
           Usage(3, 4), "opus")>>

FilterFiles ==
    {[dir |-> d, name |-> 1, lines |-> ls, readable |-> TRUE] :
        d \in {DirWork, DirPersonal, DirPrivate},
        ls \in {TwoTurns, <<UserLine>>, <<>>}}

FilterConfigs ==
    {Sharing(l, e, a) : l \in {"none", "metadata", "full"},
                        e \in {<<>>, ReadmePatterns, ClassPatterns},
                        a \in BOOLEAN}

InitFilter ==
    /\ AtRest
    /\ arg \in {[fn |-> "Apply", sharing |-> c, session |-> ParseJSONL(f)] :
                   c \in FilterConfigs, f \in FilterFiles}
    /\ res = NoRes

\* w.filter.Apply(session)
ApplyFilter ==
    /\ arg.fn = "Apply"
    /\ res = NoRes
    /\ res' = [fn |-> "Apply", val |-> Apply(arg.sharing, arg.session)]
    /\ UNCHANGED <<engineVars, arg>>

NextFilter == ApplyFilter

SpecFilter == InitFilter /\ [][NextFilter]_vars

\* Watcher.GetStats on a watcher that holds state, with the state file file:
\* the state it leaves
\* in w.state and the Stats it returns
StatsOf(file, state) ==
    LET r == loadState(file, state)
    IN  [state |-> r.state,
         stats |-> IF r.err
                   THEN [TotalSynced |-> 0, TotalPlansSynced |-> 0,
                         LastSync |-> 0]
                   ELSE [TotalSynced |->
                             Cardinality(DOMAIN r.state.SyncedSessions),
                         TotalPlansSynced |->
                             Cardinality(DOMAIN r.state.SyncedPlans),
                         LastSync |-> r.state.LastSync]]

\* sync states: the sessions in ids and the plans in names recorded at time t
StateWith(ids, names, t) ==
    [SyncedSessions |-> [x \in ids |-> 1], SyncedPlans |-> [x \in names |-> 1],
     LastSync |-> t]

SyncStates ==
    {StateWith(ids, names, t) :
        ids \in SUBSET {1, 2}, names \in SUBSET {1}, t \in 0..MaxTime}

\* the state files GetStats can find: those a pass can leave, a file that
\* cannot be read, and a file in which a value has the wrong type (data is
\* what decodes of it)
StateFiles ==
    {[status |-> "missing", data |-> EmptyState],
     [status |-> "corrupt", data |-> EmptyState],
     [status |-> "unreadable", data |-> EmptyState]}
    \cup {[status |-> "ok", data |-> st] : st \in SyncStates \ {EmptyState}}
    \cup {[status |-> "mistyped", data |-> st] : st \in SyncStates}

Includes(a, b) ==
    /\ DOMAIN b.SyncedSessions \subseteq DOMAIN a.SyncedSessions
    /\ DOMAIN b.SyncedPlans \subseteq DOMAIN a.SyncedPlans
    /\ b.LastSync <= a.LastSync

\* GetStats is called on a new watcher (cmdStatus), or on a watcher that has
\* run passes since the state file was last written; arg carries the state
\* file and w.state
InitStats ==
    /\ AtRest
    /\ arg \in {x \in [fn : {"GetStats"}, file : StateFiles,
                         state : SyncStates] :
                   x.state = EmptyState \/ Includes(x.state, x.file.data)}
    /\ res = NoRes

\* Watcher.GetStats: res carries the Stats returned, and the state file and
\* w.state after the call
GetStats ==
    /\ arg.fn = "GetStats"
    /\ res = NoRes
    /\ res' = [fn |-> "GetStats", val |-> StatsOf(arg.file, arg.state).stats,
               file |-> arg.file,
               state |-> StatsOf(arg.file, arg.state).state]
    /\ UNCHANGED <<engineVars, arg>>

NextStats == GetStats

SpecStats == InitStats /\ [][NextStats]_vars

\* lines of a transcript: a user turn, an assistant turn with a tool use,
\* usage and a model, a line of another type, a line that is no JSON (the
\* fields say what the broken text looks like), a line of JSON whose
\* "timestamp" is a number (Unmarshal into RawEntry fails), an empty line
UserTurn ==
    Line("json", "user", 1, Blocks(<<Block("text", <<"h","i">>, "", "")>>),
         NoUsage, "")

AssistantTurn ==
    Line("json", "assistant", 2,
         Blocks(<<Block("text", <<"o","k">>, "", ""),
                  Block("tool_use", <<>>, "Bash", "ls")>>),
         Usage(3, 4), "opus")

SummaryLine == Line("json", "summary", 3, PlainContent, NoUsage, "")

BrokenLine ==
    Line("malformed", "user", 4,
         Blocks(<<Block("text", <<"b","u","g">>, "", ""),
                  Block("tool_use", <<>>, "Read", "f")>>),
         Usage(5, 6), "haiku")

MistypedLine ==
    Line("malformed", "assistant", 0,
         Blocks(<<Block("tool_use", <<>>, "Edit", "g")>>), Usage(7, 8), "")

EmptyLine == Line("empty", "", 0, PlainContent, NoUsage, "")

MaxLines == 4

RECURSIVE SeqsUpTo(_, _)
SeqsUpTo(S, n) ==
    IF n = 0 THEN {<<>>}
    ELSE LET shorter == SeqsUpTo(S, n - 1)
         IN  shorter \cup {Append(q, x) : q \in shorter, x \in S}

ParserFiles ==
    {[dir |-> DirWork, name |-> 1, lines |-> ls, readable |-> TRUE] :
        ls \in SeqsUpTo({UserTurn, AssistantTurn, SummaryLine, BrokenLine,
                         MistypedLine, EmptyLine}, MaxLines)}

\* transcripts of up to six turns, with and without a keyword of the
\* debugging tag, in upper and in lower case, and with tool uses
BugTurn ==
    Line("json", "user", 1,
         Blocks(<<Block("text", <<"a"," ","B","U","G">>, "", "")>>),
         NoUsage, "")

FixTurn ==
    Line("json", "assistant", 2,
         Blocks(<<Block("text", <<"F","i","x"," ","i","t">>, "", ""),
                  Block("tool_use", <<>>, "Read", "f"),
                  Block("tool_use", <<>>, "Bash", "ls")>>),
         NoUsage, "")

MaxTagLines == 6

TagFiles ==
    {[dir |-> DirWork, name |-> 1, lines |-> ls, readable |-> TRUE] :
        ls \in SeqsUpTo({UserTurn, AssistantTurn, BugTurn, FixTurn},
                        MaxTagLines)}

\* empty transcripts in project directories of every name of up to five
\* characters that begins with "-"
MaxDirLen == 4

DirFiles ==
    {[dir |-> <<"-">> \o d, name |-> 1, lines |-> <<>>, readable |-> TRUE] :
        d \in SeqsUpTo({"a", "b", "-"}, MaxDirLen)}

InitParser ==
    /\ AtRest
    /\ arg \in {[fn |-> "ParseJSONL", file |-> f] :
                   f \in ParserFiles \cup TagFiles \cup DirFiles}
    /\ res = NoRes

\* parser.ParseJSONL(path)
ParseFile ==
    /\ arg.fn = "ParseJSONL"
    /\ res = NoRes
    /\ res' = [fn |-> "ParseJSONL", val |-> ParseJSONL(arg.file),
               err |-> ParseJSONLErr(arg.file)]
    /\ UNCHANGED <<engineVars, arg>>

NextParser == ParseFile

SpecParser == InitParser /\ [][NextParser]_vars

-----------------------------------------------------------------------------
(* Client: what an upload operation returns for the server's answer.  A body  *)
(* is an array of n objects, an object, the text null, text that is no JSON,  *)
(* or nothing.                                                                *)

NilErr == [kind |-> "nil"]

ErrUnauthorized == [kind |-> "unauthorized"]

NilRecords == [nil |-> TRUE]

BatchOps == {"UploadBatch", "UploadPlanBatch"}

SingleOps == {"Upload", "UploadPlan"}

\* json.Unmarshal(body, &result): a slice for the batch operations, a struct
\* for the single ones; null leaves the target as it is
Decode(op, body) ==
    IF op \in BatchOps
    THEN CASE body.kind = "array" -> [ok |-> TRUE,
                                      val |-> [nil |-> FALSE, n |-> body.n]]
           [] body.kind = "null" -> [ok |-> TRUE, val |-> NilRecords]
           [] OTHER -> [ok |-> FALSE, val |-> NilRecords]
    ELSE CASE body.kind = "object" -> [ok |-> TRUE,
                                       val |-> [nil |-> FALSE, n |-> 1]]
           [] body.kind = "null" -> [ok |-> TRUE,
                                     val |-> [nil |-> FALSE, n |-> 1]]
           [] OTHER -> [ok |-> FALSE, val |-> NilRecords]

\* every status below 500 is passed on to the decoder (C17 fails with it)
StatusErrServerOnly(status, body) ==
    IF status >= 500
    THEN [kind |-> "server error", status |-> status, body |-> body]
    ELSE NilErr

\* the two checks of resp.StatusCode
StatusErr(status, body) ==
    IF status = 401 THEN ErrUnauthorized
    ELSE IF status >= 400
         THEN [kind |-> "server error", status |-> status, body |-> body]
         ELSE NilErr

\* Client.Upload, UploadBatch, UploadPlan, UploadPlanBatch from
\* http.NewRequest on
ClientCall(op, resp) ==
    IF resp.transport = "create failed"
    THEN [err |-> [kind |-> "create request"], records |-> NilRecords]
    ELSE IF resp.transport = "send failed"
    THEN [err |-> [kind |-> "send request"], records |-> NilRecords]
    ELSE IF resp.transport = "read failed"
    THEN [err |-> [kind |-> "read response"], records |-> NilRecords]
    ELSE IF StatusErr(resp.status, resp.body) # NilErr
    THEN [err |-> StatusErr(resp.status, resp.body), records |-> NilRecords]
    ELSE IF ~Decode(op, resp.body).ok
    THEN [err |-> [kind |-> "parse response"], records |-> NilRecords]
    ELSE [err |-> NilErr, records |-> Decode(op, resp.body).val]

MaxRecords == 2

Bodies ==
    {[kind |-> "array", n |-> n] : n \in 0..MaxRecords}
    \cup {[kind |-> k, n |-> 0] : k \in {"object", "null", "malformed", "empty"}}

Statuses == {200, 201, 204, 399, 400, 401, 402, 403, 404, 500, 503}

Responses ==
    [transport : {"ok", "create failed", "send failed", "read failed"},
     status : Statuses, body : Bodies]

InitClient ==
    /\ AtRest
    /\ arg \in [fn : {"client"}, op : BatchOps \cup SingleOps, resp : Responses]
    /\ res = NoRes

ClientReturns ==
    /\ arg.fn = "client"
    /\ res = NoRes
    /\ res' = [fn |-> "client", val |-> ClientCall(arg.op, arg.resp)]
    /\ UNCHANGED <<engineVars, arg>>

NextClient == ClientReturns

SpecClient == InitClient /\ [][NextClient]_vars

-----------------------------------------------------------------------------
(* Configuration and the commands that load it.  A config file is missing,   *)
(* not YAML, or gives each of server.url, server.api_key and sharing.level   *)
(* a text or leaves it out ("absent").                                        *)

DefaultConfig ==
    [Server |-> [URL |-> "https://insights.dkd.internal", APIKey |-> ""],
     Sharing |-> [Level |-> "metadata", ExcludeProjects |-> <<>>,
                  AnonymizePaths |-> TRUE],
     Sync |-> [Interval |-> DefaultInterval, RetryAttempts |-> 3]]

\* yaml.Unmarshal(data, cfg): a key of the file replaces the default
Given(field, default) == IF field = "absent" THEN default ELSE field

\* config.Load
Load(file) ==
    IF file.form # "yaml" THEN [err |-> file.form, cfg |-> DefaultConfig]
    ELSE [err |-> "nil",
          cfg |-> [DefaultConfig EXCEPT
                     !.Server.URL = Given(file.url, @),
                     !.Server.APIKey = Given(file.key, @),
                     !.Sharing.Level = Given(file.level, @)]]

\* Validate without the check of the level (C18 fails with it)
ValidateServerOnly(c) ==
    IF c.Server.URL = "" THEN "ErrMissingServerURL"
    ELSE IF c.Server.APIKey = "" THEN "ErrMissingAPIKey"
    ELSE "nil"

\* Config.Validate
Validate(c) ==
    IF c.Server.URL = "" THEN "ErrMissingServerURL"
    ELSE IF c.Server.APIKey = "" THEN "ErrMissingAPIKey"
    ELSE IF c.Sharing.Level # "none" /\ c.Sharing.Level # "metadata"
            /\ c.Sharing.Level # "full"
         THEN "ErrInvalidShareLevel"
         ELSE "nil"

\* main.loadConfig
loadConfig(file) ==
    IF Load(file).err # "nil" THEN [err |-> Load(file).err, cfg |-> DefaultConfig]
    ELSE IF Validate(Load(file).cfg) # "nil"
         THEN [err |-> Validate(Load(file).cfg), cfg |-> DefaultConfig]
         ELSE [err |-> "nil", cfg |-> Load(file).cfg]

ConfigFiles ==
    {[form |-> f, url |-> "absent", key |-> "absent", level |-> "absent"] :
        f \in {"missing", "not yaml"}}
    \cup [form : {"yaml"},
          url : {"absent", "", "https://x"},
          key : {"absent", "", "k"},
          level : {"absent", "", "none", "metadata", "full", "Full", "all"}]

InitConfig ==
    /\ AtRest
    /\ arg \in [fn : {"command"}, cmd : {"run", "sync", "status"},
                file : ConfigFiles]
    /\ res = NoRes

\* cmdRun, cmdSync: loadConfig(); cmdStatus: config.Load(cfgPath)
CmdLoad ==
    /\ arg.fn = "command"
    /\ res = NoRes
    /\ LET r == IF arg.cmd = "status" THEN Load(arg.file)
                ELSE loadConfig(arg.file)
       IN  res' = [fn |-> "command", at |-> "loaded", err |-> r.err,
                   cfg |-> r.cfg, engine |-> "none"]
    /\ UNCHANGED <<engineVars, arg>>

\* cmdRun, cmdSync: os.Exit(1) on an error; cmdStatus: return
CmdGiveUp ==
    /\ res.fn = "command"
    /\ res.at = "loaded"
    /\ res.err # "nil"
    /\ res' = [res EXCEPT !.at = IF arg.cmd = "status" THEN "returned"
                                 ELSE "exit 1"]
    /\ UNCHANGED <<engineVars, arg>>

\* watcher.New(cfg, logger)
CmdNew ==
    /\ res.fn = "command"
    /\ res.at = "loaded"
    /\ res.err = "nil"
    /\ res' = [res EXCEPT !.at = "constructed", !.engine = "constructed"]
    /\ UNCHANGED <<engineVars, arg>>

\* w.Start(), w.SyncOnce(), w.GetStats()
CmdUse ==
    /\ res.fn = "command"
    /\ res.at = "constructed"
    /\ res' = [res EXCEPT !.at = "running",
                          !.engine = CASE arg.cmd = "run" -> "Start"
                                       [] arg.cmd = "sync" -> "SyncOnce"
                                       [] OTHER -> "GetStats"]
    /\ UNCHANGED <<engineVars, arg>>

NextConfig == CmdLoad \/ CmdGiveUp \/ CmdNew \/ CmdUse

SpecConfig == InitConfig /\ [][NextConfig]_vars

-----------------------------------------------------------------------------
(* The retry loop of one batch, with the seconds it sleeps.  arg holds the   *)
(* operation and retry_attempts; res holds the loop's variables, the calls   *)
(* made and the seconds slept so far.                                         *)

MaxAttempts == 6

\* time.Sleep(time.Duration(attempt*2) * time.Second)
BackoffSeconds(k) == k * 2

InitRetry ==
    /\ AtRest
    /\ arg \in [fn : {"retry"}, op : BatchOps, RetryAttempts : 0..MaxAttempts]
    /\ res = NoRes

\* "var uploadErr error" and "attempt := 1"
RetryEnter ==
    /\ arg.fn = "retry"
    /\ res = NoRes
    /\ res' = [fn |-> "retry", at |-> "loop", attempt |-> 1, uploadErr |-> "nil",
               calls |-> 0, slept |-> 0, lastSleep |-> 0, marked |-> FALSE]
    /\ UNCHANGED <<engineVars, arg>>

\* an attempt that returns without error: the batch is marked, break
RetryAttemptOk ==
    /\ res.fn = "retry"
    /\ res.at = "loop"
    /\ res.attempt <= arg.RetryAttempts
    /\ res' = [res EXCEPT !.at = "after", !.uploadErr = "nil",
                          !.calls = @ + 1, !.lastSleep = 0, !.marked = TRUE]
    /\ UNCHANGED <<engineVars, arg>>

\* an attempt that returns an error: uploadErr = err, sleep, attempt++
RetryAttemptFails ==
    /\ res.fn = "retry"
    /\ res.at = "loop"
    /\ res.attempt <= arg.RetryAttempts
    /\ \E e \in UploadErrors :
          res' = [res EXCEPT !.uploadErr = e, !.calls = @ + 1,
                             !.slept = @ + BackoffSeconds(res.attempt),
                             !.lastSleep = BackoffSeconds(res.attempt),
                             !.attempt = NextAttempt(e, @)]
    /\ UNCHANGED <<engineVars, arg>>

\* the loop condition fails: on to "if uploadErr != nil"
RetryExit ==
    /\ res.fn = "retry"
    /\ res.at = "loop"
    /\ res.attempt > arg.RetryAttempts
    /\ res' = [res EXCEPT !.at = "after"]
    /\ UNCHANGED <<engineVars, arg>>

NextRetry == RetryEnter \/ RetryAttemptOk \/ RetryAttemptFails \/ RetryExit

SpecRetry == InitRetry /\ [][NextRetry]_vars

------------------------------------------------------------------------------
(* The agent in an installation where transcripts of the same name in two     *)
(* project directories are both shared: no project is excluded.               *)

InitSameName ==
    /\ InitProcess
    /\ sessFiles = WorldSameName
    /\ projectsDir = TRUE
    /\ plansDir = TRUE
    /\ planFiles = <<PlanFile(1, TRUE)>>
    /\ mode \in {"once", "daemon"}
    /\ \E retry \in 0..MaxRetry :
          cfg = [Sharing |-> Sharing("metadata", <<>>, TRUE),
                 Sync |-> [Interval |-> DefaultInterval,
                           RetryAttempts |-> retry]]
    /\ passes = 0
    /\ edits = 0
    /\ arg = NoArg
    /\ res = NoRes

SpecSameName == InitSameName /\ [][Next]_vars

------------------------------------------------------------------------------
(* Two agent processes over one state file: the daemon (Start) and one-shot   *)
(* runs (SyncOnce).  The state file, the transcripts, the configuration and   *)
(* the clock are shared; res.proc holds what each process has in memory.      *)

Procs == {"daemon", "once"}

MaxRacePasses == 2
MaxRaceFiles == 2

NoProc == [pc |-> "idle", w |-> EmptyState, toUpload |-> <<>>, i |-> 0,
           attempt |-> 1, passes |-> 0, lost |-> {},
           found |-> [status |-> "missing", data |-> EmptyState],
           err |-> "nil"]

\* the length of json.MarshalIndent(state), counted in its items: the frame
\* with last_sync and one line for every entry of the two maps
StateLen(state) ==
    1 + Cardinality(DOMAIN state.SyncedSessions)
      + Cardinality(DOMAIN state.SyncedPlans)

\* File.Write of len bytes at offset 0 of a file that holds size bytes: whether
\* the file holds the written bytes and nothing else afterwards.  Bytes the
\* file held beyond the written ones stay.  Two states with as many entries
\* differ in length by the digits of their times, so either may be the longer.
WholeAfterWrite(len, size) ==
    IF len > size THEN {TRUE} ELSE IF len < size THEN {FALSE} ELSE BOOLEAN

\* the written bytes followed by the rest of what the file held: json.Unmarshal
\* rejects it
Garbled == [status |-> "corrupt", data |-> EmptyState]

MaxOf(a, b) == IF a >= b THEN a ELSE b

InitRace ==
    /\ InitProcess
    /\ sessFiles \in {BigWorld(n) : n \in 1..MaxRaceFiles}
    /\ projectsDir = TRUE
    /\ plansDir = FALSE
    /\ planFiles = <<>>
    /\ mode = "daemon"
    /\ \E retry \in 1..MaxRetry :
          cfg = [Sharing |-> Sharing("metadata", <<>>, TRUE),
                 Sync |-> [Interval |-> DefaultInterval,
                           RetryAttempts |-> retry]]
    /\ passes = 0
    /\ edits = 0
    /\ arg = [fn |-> "race"]
    /\ res = [fn |-> "race", proc |-> [p \in Procs |-> NoProc],
              saved |-> {}, again |-> {}, clean |-> TRUE, size |-> 0]

raceFixed == <<cfg, mode, projectsDir, sessFiles, plansDir, planFiles, pc, w,
               ret, newFiles, toUpload, toUploadSrc, excludedNow, i, attempt,
               uploadErr, planNew, planUp, calls, passes, passStart, last,
               acked, excluded, edits, stopped, arg>>

\* the IDs that were in a written state file and are not in the file now
Omitted(file) ==
    res.saved \ DOMAIN LoadOrEmpty(file).SyncedSessions

\* Start and SyncOnce up to the call of sync: the process loads the state file
RaceLoad(p) ==
    /\ res.fn = "race"
    /\ res.proc[p].pc = "idle"
    /\ res.proc[p].passes < MaxRacePasses
    /\ res' = [res EXCEPT !.proc[p].pc = "sync",
                          !.proc[p].w = LoadOrEmpty(stateFile),
                          !.proc[p].passes = @ + 1,
                          !.proc[p].lost = Omitted(stateFile)]
    /\ UNCHANGED <<raceFixed, stateFile, now>>

\* Start: case <-ticker.C; the daemon keeps the state it has in memory
RaceTick(p) ==
    /\ res.fn = "race"
    /\ p = "daemon"
    /\ res.proc[p].pc = "wait"
    /\ res.proc[p].passes < MaxRacePasses
    /\ res' = [res EXCEPT !.proc[p].pc = "sync",
                          !.proc[p].passes = @ + 1,
                          !.proc[p].lost = Omitted(stateFile)]
    /\ UNCHANGED <<raceFixed, stateFile, now>>

\* sync, lines 103-143
RaceDiscover(p) ==
    /\ res.fn = "race"
    /\ res.proc[p].pc = "sync"
    /\ LET me == res.proc[p]
           r == ParseLoop(NewSessionFiles(sessFiles, me.w), 1, sessFiles,
                          cfg.Sharing, now,
                          [state |-> me.w, toUpload |-> <<>>, src |-> <<>>])
       IN  res' = [res EXCEPT
                     !.proc[p].w = r.state,
                     !.proc[p].toUpload = r.toUpload,
                     !.proc[p].i = 0,
                     !.proc[p].attempt = 1,
                     !.proc[p].pc = IF Len(r.toUpload) > 0 THEN "upload"
                                    ELSE "finish"]
    /\ UNCHANGED <<raceFixed, stateFile, now>>

\* sync, lines 156-172: one attempt of the batch at i, answered with one record
\* per item or failed
RaceUpload(p) ==
    /\ res.fn = "race"
    /\ res.proc[p].pc = "upload"
    /\ res.proc[p].attempt <= cfg.Sync.RetryAttempts
    /\ LET me == res.proc[p]
           batch == BatchAt(me.toUpload, me.i)
           sent == {batch[j].ID : j \in 1..Len(batch)}
       IN  \/ /\ res' = [res EXCEPT
                           !.again = @ \cup (sent \cap me.lost),
                           !.proc[p].w = MarkSessions(me.w, batch, Len(batch),
                                                      now),
                           !.proc[p].i = @ + batchSize,
                           !.proc[p].attempt = 1,
                           !.proc[p].pc =
                               IF me.i + batchSize < Len(me.toUpload)
                               THEN "upload" ELSE "finish"]
              /\ now' = now
           \/ \E e \in UploadErrors :
                 /\ res' = [res EXCEPT
                              !.again = @ \cup (sent \cap me.lost),
                              !.proc[p].attempt = NextAttempt(e, @)]
                 /\ now' = Sleep(now)
    /\ UNCHANGED <<raceFixed, stateFile>>

\* sync, lines 156 and 174-177: no attempt is left for the batch at i
RaceBatchFailed(p) ==
    /\ res.fn = "race"
    /\ res.proc[p].pc = "upload"
    /\ res.proc[p].attempt > cfg.Sync.RetryAttempts
    /\ res' = [res EXCEPT
                 !.proc[p].i = @ + batchSize,
                 !.proc[p].attempt = 1,
                 !.proc[p].pc =
                     IF res.proc[p].i + batchSize < Len(res.proc[p].toUpload)
                     THEN "upload" ELSE "finish"]
    /\ UNCHANGED <<raceFixed, stateFile, now>>

\* sync, lines 179-186, and saveState up to the opening of the file by
\* os.WriteFile: syncPlans finds no plans directory, LastSync is set, and the
\* file is opened and truncated, or cannot be opened and the save has failed.
\* found is the file as the save found it, size the bytes the file holds.
RaceFinish(p) ==
    /\ res.fn = "race"
    /\ res.proc[p].pc = "finish"
    /\ LET st == [res.proc[p].w EXCEPT !.LastSync = now]
       IN  \/ /\ stateFile' = saveState(stateFile, st, "truncated")
              /\ res' = [res EXCEPT !.proc[p].w = st,
                                    !.proc[p].found = stateFile,
                                    !.proc[p].pc = "write",
                                    !.size = 0]
           \/ /\ stateFile' = saveState(stateFile, st, "failed")
              /\ res' = [res EXCEPT
                           !.proc[p].w = st,
                           !.proc[p].pc = IF p = "daemon" THEN "wait"
                                          ELSE "idle",
                           !.proc[p].err = "open",
                           !.clean = FALSE]
    /\ UNCHANGED <<raceFixed, now>>

\* saveState, the write of os.WriteFile through the descriptor opened in
\* RaceFinish: the data are written from offset 0 over what the file holds by
\* now, and the save returns nil; or the write fails before a byte is written,
\* the file stays as it is and the save returns the error
RaceWrite(p) ==
    /\ res.fn = "race"
    /\ res.proc[p].pc = "write"
    /\ LET me == res.proc[p]
           next == IF p = "daemon" THEN "wait" ELSE "idle"
       IN  \/ \E whole \in WholeAfterWrite(StateLen(me.w), res.size) :
                 /\ stateFile' = IF whole THEN saveState(me.found, me.w, "ok")
                                 ELSE Garbled
                 /\ res' = [res EXCEPT
                              !.proc[p].pc = next,
                              !.proc[p].err = "nil",
                              !.size = MaxOf(StateLen(me.w), @),
                              !.saved = IF whole
                                        THEN @ \cup DOMAIN me.w.SyncedSessions
                                        ELSE @]
           \/ /\ stateFile' = stateFile
              /\ res' = [res EXCEPT !.proc[p].pc = next,
                                    !.proc[p].err = "write",
                                    !.clean = FALSE]
    /\ UNCHANGED <<raceFixed, now>>

NextRace ==
    \/ \E p \in Procs : RaceLoad(p)
    \/ \E p \in Procs : RaceTick(p)
    \/ \E p \in Procs : RaceDiscover(p)
    \/ \E p \in Procs : RaceUpload(p)
    \/ \E p \in Procs : RaceBatchFailed(p)
    \/ \E p \in Procs : RaceFinish(p)
    \/ \E p \in Procs : RaceWrite(p)

SpecRace == InitRace /\ [][NextRace]_vars

-----------------------------------------------------------------------------
(* Claims *)

InPass == pc \in {"sync", "upload", "plans", "planupload", "finish"}

\* the session delivery of the current pass is over
SessionsDone == pc \in {"plans", "planupload", "finish"}

SessionCalls == SelectSeq(calls, LAMBDA c : c.kind = "sessions")
PlanCalls == SelectSeq(calls, LAMBDA c : c.kind = "plans")

\* the paths submitted to UploadBatch in the current pass
Submitted == UNION {Range(calls[k].src) : k \in 1..Len(calls)}

\* C1: a session of a successful UploadBatch call of a pass that saved the
\* state is no candidate and is not submitted in any later pass
C1_AckedNeverAgain ==
    InPass => \A p \in acked : p \notin Range(newFiles) /\ p \notin Submitted

\* the files are those the pass before started with, and did not change
\* during the current pass
SameFilesAs(ps) ==
    /\ passStart.sessFiles = ps.sessFiles
    /\ passStart.planFiles = ps.planFiles
    /\ passStart.plansDir = ps.plansDir
    /\ sessFiles = ps.sessFiles
    /\ planFiles = ps.planFiles

ReadableRecorded(files, plans, dir, state) ==
    /\ \A f \in Range(files) :
          ParseJSONLErr(f) = "nil" => f.name \in DOMAIN state.SyncedSessions
    /\ dir =>
          \A q \in Range(plans) :
              (q.stat /\ q.readable)
                  => /\ q.name \in DOMAIN state.SyncedPlans
                     /\ q.mtime <= state.SyncedPlans[q.name]

\* the pass is the second of two SyncOnce runs over the same files, the first
\* of which saved its state
SecondRun ==
    /\ mode = "once"
    /\ InPass
    /\ last.n >= 1
    /\ SameFilesAs(last.pre)
    /\ last.save = "ok"

C3_WholeBatchMarked ==
    \A k \in 1..Len(calls) :
        (calls[k].kind = "sessions" /\ calls[k].ok)
            => \A j \in 1..Len(calls[k].batch) :
                   calls[k].batch[j].ID \in DOMAIN w.SyncedSessions

\* a segment of a pattern matches a segment of a path: '*' stands for any
\* characters of the segment
RECURSIVE SegmentMatches(_, _)
SegmentMatches(pat, seg) ==
    IF pat = <<>> THEN seg = <<>>
    ELSE IF Head(pat) = "*"
         THEN \/ SegmentMatches(Tail(pat), seg)
              \/ seg # <<>> /\ SegmentMatches(pat, Tail(seg))
         ELSE /\ seg # <<>>
              /\ Head(pat) = Head(seg)
              /\ SegmentMatches(Tail(pat), Tail(seg))

\* the glob of the documentation, matched segment by segment: "**" stands for
\* any number of segments
RECURSIVE GlobMatches(_, _)
GlobMatches(pats, segs) ==
    IF pats = <<>> THEN segs = <<>>
    ELSE IF Head(pats) = <<"*", "*">>
         THEN \/ GlobMatches(Tail(pats), segs)
              \/ segs # <<>> /\ GlobMatches(pats, Tail(segs))
         ELSE /\ segs # <<>>
              /\ SegmentMatches(Head(pats), Head(segs))
              /\ GlobMatches(Tail(pats), Tail(segs))

\* the project path of the transcript at p matches an exclusion pattern
MatchesExclusion(p) ==
    \E k \in 1..Len(cfg.Sharing.ExcludeProjects) :
        GlobMatches(Split(cfg.Sharing.ExcludeProjects[k], "/"),
                    Split(ProjectPathOf(p.dir), "/"))

\* the candidates of the pass before that were read and match an exclusion
\* pattern
SeenExcluded ==
    {p \in Range(NewSessionFiles(last.pre.sessFiles, last.pre.state)) :
        /\ ParseJSONLErr(FileAt(last.pre.sessFiles, p)) = "nil"
        /\ MatchesExclusion(p)}

\* C4: a session whose project path matches an exclusion pattern is never
\* submitted, and once the pass that read it has ended its ID is in the
\* session map and it is no candidate
C4_ExcludedNeverAgain ==
    /\ \A p \in Submitted : ~MatchesExclusion(p)
    /\ (InPass /\ last.n >= 1)
          => \A p \in SeenExcluded :
                 /\ p.name \in DOMAIN w.SyncedSessions
                 /\ p \notin Range(newFiles)

\* C5: with sharing level "none" no upload call of any kind is made
C5_NoneSendsNothing ==
    cfg.Sharing.Level = "none" => calls = <<>>

Personal == <<"p","e","r","s","o","n","a","l">>

\* C6: with the pattern "**/personal/**" no session whose project path has a
\* segment named personal is submitted
C6_PersonalSuppressed ==
    PatPersonal \in Range(cfg.Sharing.ExcludeProjects)
        => \A p \in Submitted :
               Personal \notin Range(Split(ProjectPathOf(p.dir), "/"))

\* the plans the claim makes candidates: not in the plan map, or modified
\* strictly after the recorded time
ClaimedPlanCandidates ==
    LET sel == SelectSeq(planFiles, LAMBDA q :
                   \/ q.name \notin DOMAIN w.SyncedPlans
                   \/ ~(q.mtime <= w.SyncedPlans[q.name]))
    IN  [k \in 1..Len(sel) |-> sel[k].name]

\* C7, as claimed: the plan scan makes exactly those plans candidates that are
\* absent from the plan map or modified strictly after their recorded time,
\* and only candidates are submitted
C7_PlanCandidates ==
    /\ [][(pc = "plans" /\ pc' # "plans" /\ plansDir)
             => planNew' = ClaimedPlanCandidates]_vars
    /\ [](\A k \in 1..Len(calls) : calls[k].kind = "plans" =>
             \A j \in 1..Len(calls[k].batch) :
                 calls[k].batch[j].Name \in Range(planNew))

\* the claimed candidates among the plans whose modification time can be read
StatedPlanCandidates ==
    LET sel == SelectSeq(planFiles, LAMBDA q :
                   /\ q.stat
                   /\ \/ q.name \notin DOMAIN w.SyncedPlans
                      \/ ~(q.mtime <= w.SyncedPlans[q.name]))
    IN  [k \in 1..Len(sel) |-> sel[k].name]

\* C7, amended: of the plans whose modification time can be read, the plan scan
\* makes exactly those candidates that are absent from the plan map or
\* modified strictly after their recorded time; a plan whose modification
\* time cannot be read is no candidate; and only candidates are submitted
C7_StatedPlanCandidates ==
    /\ [][(pc = "plans" /\ pc' # "plans" /\ plansDir)
             => planNew' = StatedPlanCandidates]_vars
    /\ [](\A k \in 1..Len(calls) : calls[k].kind = "plans" =>
             \A j \in 1..Len(calls[k].batch) :
                 calls[k].batch[j].Name \in Range(planNew))

\* a scan that kept a plan modified after its recorded time, dropped one
\* whose modification time is the recorded time, and passed over an unseen
\* plan whose modification time cannot be read
C7_Witness ==
    /\ pc = "finish"
    /\ \E q \in Range(planFiles) :
          /\ q.name \in DOMAIN passStart.state.SyncedPlans
          /\ q.mtime > passStart.state.SyncedPlans[q.name]
          /\ q.name \in Range(planNew)
    /\ \E q \in Range(planFiles) :
          /\ q.name \in DOMAIN passStart.state.SyncedPlans
          /\ q.mtime = passStart.state.SyncedPlans[q.name]
          /\ q.name \notin Range(planNew)
    /\ \E q \in Range(planFiles) :
          /\ ~q.stat
          /\ q.name \notin DOMAIN w.SyncedPlans
          /\ q.name \notin Range(planNew)

CeilDiv(a, b) == (a + b - 1) \div b

\* C8: when every attempt succeeded, the surviving sessions were submitted in
\* ceil(n/10) calls, the consecutive slices of ten of the surviving list
C8_BatchCalls ==
    (SessionsDone /\ \A k \in 1..Len(SessionCalls) : SessionCalls[k].ok)
        => /\ Len(SessionCalls) = CeilDiv(Len(toUpload), batchSize)
           /\ \A k \in 1..Len(SessionCalls) :
                  SessionCalls[k].batch =
                      SubSeq(toUpload, (k - 1) * batchSize + 1,
                             Min(k * batchSize, Len(toUpload)))

\* C9: when calls were made and every one failed, each batch was submitted
\* retry_attempts times
\* and no session of it is in the session map
C9_FailedBatches ==
    (/\ SessionsDone /\ SessionCalls # <<>>
     /\ \A k \in 1..Len(SessionCalls) : ~SessionCalls[k].ok)
        => /\ Len(SessionCalls) =
                  CeilDiv(Len(toUpload), batchSize) * cfg.Sync.RetryAttempts
           /\ \A j \in 1..Len(toUpload) :
                  toUpload[j].ID \notin DOMAIN w.SyncedSessions

\* C10: a pass never ends without writing the state; the state a pass wrote is
\* the engine's state with the last-sync time set
C10_PassWritesState ==
    /\ pc # "crashed"
    /\ (pc \in {"idle", "wait"} /\ last.n >= 1 /\ last.save = "ok")
          => /\ stateFile = [status |-> "ok", data |-> w]
             /\ w.LastSync > 0

\* C11: when the projects directory cannot be enumerated, the pass is aborted
\* and SyncOnce returns an error
C11_EnumerationErrorReturned ==
    (pc = "idle" /\ mode = "once" /\ last.n >= 1 /\ ~projectsDir)
        => ret # "nil" /\ last.save = "none"

\* C12: Start returns only from its select, when every pass that began has
\* ended (with its write of the state file), and not before it ran a pass;
\* in daemon mode a pass begins only when Start is entered or on a tick
C12_StopBetweenPasses ==
    /\ [](pc = "returned" => passes >= 1 /\ last.n = passes)
    /\ [](pc = "returned" /\ last.save = "ok"
             => stateFile = [status |-> "ok", data |-> last.post])
    /\ [][(mode = "daemon" /\ pc # "sync" /\ pc' = "sync")
             => (pc = "idle" \/ pc = "wait")]_vars
    /\ [][(mode = "daemon" /\ pc = "idle" /\ pc' # "idle") => pc' = "sync"]_vars

\* Stop was called during a pass, the pass ended with its write of the state
\* file, and then Start returned
C12_Witness ==
    /\ pc = "returned"
    /\ stopped = "pass"
    /\ last.n = passes
    /\ last.save = "ok"
    /\ calls # <<>>

SameSummary(a, b) ==
    /\ a.ID = b.ID
    /\ a.StartedAt = b.StartedAt
    /\ a.EndedAt = b.EndedAt
    /\ a.TotalMessages = b.TotalMessages
    /\ a.TotalTokensIn = b.TotalTokensIn
    /\ a.TotalTokensOut = b.TotalTokensOut
    /\ a.Tools = b.Tools
    /\ a.Tags = b.Tags

Applied == res.fn = "Apply"

NotExcluded ==
    ~isExcluded(arg.sharing.ExcludeProjects, arg.session.ProjectPath)

\* C13: Apply on a session that is not excluded gives nil under "none", a copy
\* with the same ID, timestamps, counts, tool stats and tags and no message
\* under "metadata", and that copy with the input's messages under "full"
C13_ApplyByLevel ==
    (Applied /\ NotExcluded) =>
        /\ arg.sharing.Level = "none" => res.val = NilSession
        /\ arg.sharing.Level = "metadata" =>
              /\ res.val # NilSession
              /\ SameSummary(res.val, arg.session)
              /\ res.val.Messages = <<>>
        /\ arg.sharing.Level = "full" =>
              /\ res.val # NilSession
              /\ SameSummary(res.val, arg.session)
              /\ res.val.Messages = arg.session.Messages

\* Apply under "metadata" on a session with two text turns, a tool and a tag
C13_Witness ==
    /\ Applied
    /\ NotExcluded
    /\ arg.sharing.Level = "metadata"
    /\ Len(arg.session.Messages) = 2
    /\ DOMAIN arg.session.Tools # {}
    /\ TopicTag("debugging") \in arg.session.Tags
    /\ res.val # NilSession
    /\ res.val.Messages = <<>>
    /\ res.val.Tags = arg.session.Tags

\* C14: under "full" the session Apply returns carries the message list, the
\* token-usage list and the tool-call list of the extracted session
C14_FullSharesEverything ==
    (Applied /\ arg.sharing.Level = "full" /\ res.val # NilSession) =>
        /\ res.val.Messages = arg.session.Messages
        /\ res.val.TokenUsage = arg.session.TokenUsage
        /\ res.val.ToolCalls = arg.session.ToolCalls

PersistedStats ==
    [TotalSynced |-> Cardinality(DOMAIN arg.file.data.SyncedSessions),
     TotalPlansSynced |-> Cardinality(DOMAIN arg.file.data.SyncedPlans),
     LastSync |-> arg.file.data.LastSync]

\* C15: GetStats returns the sizes of the persisted maps and the persisted
\* last-sync time and changes neither the state file nor the state in memory
C15_GetStatsChangesNothing ==
    res.fn = "GetStats"
        => /\ res.val = PersistedStats
           /\ res.file = arg.file
           /\ res.state = arg.state

\* the lines of the parsed file that json.Unmarshal accepts
ValidLines == SelectSeq(arg.file.lines, LAMBDA l : l.form = "json")

Turns == SelectSeq(ValidLines, LAMBDA l : l.type \in {"user", "assistant"})

\* C16: ParseJSONL on a file with malformed lines among valid ones returns no
\* error and a session whose TotalMessages is the number of valid user and
\* assistant lines; the session is the one the file without the malformed
\* lines gives, so that a malformed line changes no counter, tool stat,
\* timestamp or message
C16_MalformedLinesSkipped ==
    res.fn = "ParseJSONL"
        => /\ res.err = "nil"
           /\ res.val.TotalMessages = Len(Turns)
           /\ Len(res.val.Messages) = Len(Turns)
           /\ res.val = ParseJSONL([arg.file EXCEPT !.lines = ValidLines])

C16_Witness ==
    /\ res.fn = "ParseJSONL"
    /\ Len(arg.file.lines) = 4
    /\ arg.file.lines[2] = BrokenLine
    /\ arg.file.lines[3] = MistypedLine
    /\ res.val.TotalMessages = 2
    /\ DOMAIN res.val.Tools = {"Bash"}

Received == res.fn = "client" /\ arg.resp.transport = "ok"

\* C17: each upload operation, for a response it received: status 401 gives
\* ErrUnauthorized; any other status of 400 or more gives an error with the
\* status and the body; below 400 the decoded body is returned; no records
\* come with any error
C17_StatusMapping ==
    /\ Received /\ arg.resp.status = 401
           => res.val.err = ErrUnauthorized
    /\ Received /\ arg.resp.status >= 400 /\ arg.resp.status # 401
           => res.val.err = [kind |-> "server error",
                             status |-> arg.resp.status,
                             body |-> arg.resp.body]
    /\ Received /\ arg.resp.status < 400
           => \/ /\ res.val.err = NilErr
                 /\ Decode(arg.op, arg.resp.body).ok
                 /\ res.val.records = Decode(arg.op, arg.resp.body).val
              \/ /\ res.val.err = [kind |-> "parse response"]
                 /\ ~Decode(arg.op, arg.resp.body).ok
    /\ res.fn = "client" /\ res.val.err # NilErr
           => res.val.records = NilRecords

C17_Witness ==
    /\ Received
    /\ arg.op = "UploadPlanBatch"
    /\ arg.resp.status = 401
    /\ arg.resp.body = [kind |-> "array", n |-> 2]
    /\ res.val = [err |-> ErrUnauthorized, records |-> NilRecords]

Levels == {"none", "metadata", "full"}

Rejected(c) ==
    c.Server.URL = "" \/ c.Server.APIKey = "" \/ c.Sharing.Level \notin Levels

\* C18: Validate returns an error exactly when the server URL is empty, the
\* API key is empty or the level is not none, metadata or full (here on every
\* configuration Load can give), and run and sync construct and start the
\* engine only with a configuration that Validate accepts
C18_ValidatedBeforeEngine ==
    /\ arg.fn = "command" /\ Load(arg.file).err = "nil"
           => (Validate(Load(arg.file).cfg) # "nil"
                  <=> Rejected(Load(arg.file).cfg))
    /\ res.fn = "command" /\ arg.cmd \in {"run", "sync"}
          /\ res.engine # "none"
           => /\ Load(arg.file).err = "nil"
              /\ res.cfg = Load(arg.file).cfg
              /\ ~Rejected(res.cfg)

C18_Witness ==
    /\ res.fn = "command"
    /\ arg.cmd = "run"
    /\ arg.file.level = "Full"
    /\ arg.file.url = "https://x"
    /\ arg.file.key = "k"
    /\ res.at = "exit 1"
    /\ res.err = "ErrInvalidShareLevel"
    /\ res.engine = "none"

DebugWords ==
    {<<"e","r","r","o","r">>, <<"b","u","g">>, <<"f","i","x">>,
     <<"d","e","b","u","g">>}

AllWords == UNION {q.keywords : q \in tagPatterns}

\* one of the first five messages of the parsed session has a word of words
\* in its text, in whatever case
InFirstFive(words) ==
    \E k \in 1..Len(res.val.Messages) :
        /\ k <= 5
        /\ \E kw \in words : Contains(ToLower(res.val.Messages[k].Content), kw)

ToolsUsed ==
    {b.name : b \in {x \in UNION {Range(l.content.blocks) :
                                      l \in Range(ValidLines)} :
                        x.kind = "tool_use"}}

\* C19: the tags of a parsed session hold debugging exactly when error, bug,
\* fix or debug occurs, in any case, in the text of one of the first five
\* messages; without a keyword in the first five messages there is no topical
\* tag; and the tool tags are those of the distinct tools used
C19_TagsFromFirstFive ==
    res.fn = "ParseJSONL"
        => /\ TopicTag("debugging") \in res.val.Tags <=> InFirstFive(DebugWords)
           /\ ~InFirstFive(AllWords)
                  => {t \in res.val.Tags : t.kind = "topic"} = {}
           /\ {t.name : t \in {x \in res.val.Tags : x.kind = "tool"}}
                  = ToolsUsed

C19_Witness ==
    /\ res.fn = "ParseJSONL"
    /\ Len(arg.file.lines) = 6
    /\ arg.file.lines[5] = AssistantTurn
    /\ arg.file.lines[6] = FixTurn
    /\ ~InFirstFive(AllWords)
    /\ res.val.Tags = {ToolTag("Bash"), ToolTag("Read")}

\* the b-th slice of ten of the surviving sessions, b from 0
Slice(b) == BatchAt(toUpload, b * batchSize)

CalledWith(batch) == {k \in 1..Len(SessionCalls) : SessionCalls[k].batch = batch}

\* there were calls with the batch and every one failed
FailedAll(batch) ==
    /\ CalledWith(batch) # {}
    /\ \A k \in CalledWith(batch) : ~SessionCalls[k].ok

\* the IDs that the successful session calls of the pass marked
MarkedIDs ==
    UNION {{SessionCalls[k].batch[j].ID :
               j \in 1..Min(SessionCalls[k].n, Len(SessionCalls[k].batch))} :
           k \in {x \in 1..Len(SessionCalls) : SessionCalls[x].ok}}

\* when the session delivery is over, every batch that follows a batch that
\* failed all its attempts was submitted
NextBatchAttempted ==
    SessionsDone
        => \A b \in 0..(CeilDiv(Len(toUpload), batchSize) - 2) :
               FailedAll(Slice(b)) => CalledWith(Slice(b + 1)) # {}

\* a pass that began to deliver sessions goes on to plan sync
PlanSyncRuns == ~(pc = "crashed" /\ PlanCalls = <<>>)

\* the sessions marked in a pass stay marked through plan sync, whatever the
\* plan calls return, and are in the state the pass writes
SessionsStayRecorded ==
    /\ SessionsDone => MarkedIDs \subseteq DOMAIN w.SyncedSessions
    /\ (Between /\ last.n >= 1 /\ last.save = "ok")
           => /\ MarkedIDs \subseteq DOMAIN w.SyncedSessions
              /\ stateFile.data = w

\* C20: a batch that failed all its attempts is followed by an attempt of the
\* next batch, plan sync runs after the session delivery whatever its outcome,
\* and the sessions marked in a pass are recorded whatever plan sync does
C20_FailuresDoNotStopPass ==
    /\ NextBatchAttempted
    /\ PlanSyncRuns
    /\ SessionsStayRecorded

\* the paths among paths whose extraction fails, the files being files: the
\* file cannot be opened, or a line exceeds the scanner's buffer
FailedPaths(paths, files) ==
    {p \in Range(paths) :
        LET f == FileAt(files, p)
        IN  \/ ~f.readable
            \/ \E k \in 1..Len(f.lines) : f.lines[k].form = "toolong"}

\* the pass has built its list of sessions to upload
Discovered == pc \in {"upload", "plans", "planupload", "finish"}

\* the candidates of the last pass whose extraction failed
FailedLastPass ==
    FailedPaths(NewSessionFiles(last.pre.sessFiles, last.pre.state),
                last.pre.sessFiles)

\* C21: a candidate whose extraction fails is not submitted and not put into
\* the session map in that pass, every other candidate is taken into the
\* upload list or recorded as excluded, and the file is a candidate again in
\* the next pass
C21_FailedExtractionSkipped ==
    /\ Discovered
          => /\ \A p \in FailedPaths(newFiles, sessFiles) :
                    /\ p \notin Range(toUploadSrc)
                    /\ p \notin Submitted
                    /\ SessionID(p) \notin DOMAIN w.SyncedSessions
             /\ \A p \in Range(newFiles) \ FailedPaths(newFiles, sessFiles) :
                    \/ p \in Range(toUploadSrc)
                    \/ SessionID(p) \in DOMAIN w.SyncedSessions
    /\ (Discovered /\ last.n >= 1 /\ last.save # "none")
          => FailedLastPass \subseteq Range(newFiles)

\* the pass in progress was entered through SyncOnce or Start, which load the
\* state file
LoadedPass == InPass /\ (mode = "once" \/ passes = 1)

\* C22: a pass entered through SyncOnce (or Start) over a state file that
\* exists but cannot be read or decoded starts with both maps empty and takes
\* every transcript as a candidate; over a missing file it starts empty as
\* well; the error of the load is never what the caller gets back
C22_UnreadableStateIsEmpty ==
    /\ (LoadedPass /\ stateFile.status \in {"corrupt", "missing"})
          => /\ passStart.state = EmptyState
             /\ Discovered => newFiles = findSessions(sessFiles)
    /\ (LoadedPass /\ stateFile.status = "ok")
          => passStart.state = stateFile.data
    /\ ret \in {"nil", "save error"}

C22_Witness ==
    /\ mode = "once"
    /\ passes = 2
    /\ pc = "finish"
    /\ stateFile.status = "corrupt"
    /\ last.post.SyncedSessions # <<>>
    /\ passStart.state = EmptyState
    /\ Len(newFiles) = 3
    /\ Len(calls) >= 1
    /\ ret = "save error"

\* C23: when the write of the state file fails at the end of a pass, the pass
\* returns the error and a load of the state file gives what it gave before
\* the pass
C23_FailedSaveKeepsOldState ==
    [][(pc = "finish" /\ pc' # "finish" /\ last'.save # "ok")
          => /\ ret' = "save error"
             /\ loadState(stateFile', w).state
                    = loadState(stateFile, w).state]_vars

\* the call a step has just made, when it made one and the call succeeded
NewOkCalls(kind) ==
    IF Len(calls') = Len(calls) + 1 /\ calls'[Len(calls')].ok
          /\ calls'[Len(calls')].kind = kind
    THEN {calls'[Len(calls')]}
    ELSE {}

\* the IDs of the candidates a step has just found for which the filter
\* returned nil
FilteredNil ==
    IF pc = "sync"
    THEN {SessionID(p) : p \in {q \in Range(newFiles') :
              /\ ParseJSONLErr(FileAt(sessFiles, q)) = "nil"
              /\ Apply(cfg.Sharing, ParseJSONL(FileAt(sessFiles, q)))
                     = NilSession}}
    ELSE {}

\* C24: a step of a pass adds an ID to the session map only when it is the ID
\* of a session of the UploadBatch call that has just returned without error
\* or of a candidate for which the filter returned nil, adds a name to the
\* plan map only when it is a plan of the UploadPlanBatch call that has just
\* returned without error, and removes no entry of either map
C24_MapsGrowOnlyOnAcceptance ==
    [][InPass
          => /\ DOMAIN w.SyncedSessions \subseteq DOMAIN w'.SyncedSessions
             /\ DOMAIN w.SyncedPlans \subseteq DOMAIN w'.SyncedPlans
             /\ (DOMAIN w'.SyncedSessions \ DOMAIN w.SyncedSessions)
                    \subseteq
                    (FilteredNil
                     \cup UNION {{x.ID : x \in Range(c.batch)} :
                                   c \in NewOkCalls("sessions")})
             /\ (DOMAIN w'.SyncedPlans \ DOMAIN w.SyncedPlans)
                    \subseteq UNION {{x.Name : x \in Range(c.batch)} :
                                         c \in NewOkCalls("plans")}]_vars

C24_Witness ==
    /\ pc = "finish"
    /\ excludedNow # {}
    /\ MarkedIDs # {}
    /\ \E k \in 1..Len(SessionCalls) : ~SessionCalls[k].ok
    /\ DOMAIN w.SyncedPlans # {}

\* the batch of the retry loop failed all its attempts
AllAttemptsFailed ==
    res.fn = "retry" /\ res.at = "after" /\ res.uploadErr # "nil"

\* C25: when a batch has failed all N attempts, the engine has slept
\* 2*(1+...+(N-1)) = N*(N-1) seconds, and no sleep follows the last attempt
C25_BackoffBetweenAttempts ==
    AllAttemptsFailed
        => /\ res.slept = arg.RetryAttempts * (arg.RetryAttempts - 1)
           /\ res.lastSleep = 0

\* the step is a delivery attempt that failed with the unauthorized error
UnauthorizedAttempt ==
    /\ Len(calls') = Len(calls) + 1
    /\ ~calls'[Len(calls')].ok
    /\ uploadErr' = "unauthorized"

\* the calls made so far with the batch at i
CallsOfBatch ==
    {k \in 1..Len(calls) :
        calls[k].batch = BatchAt(IF pc = "upload" THEN toUpload ELSE planUp, i)}

\* C26: an attempt that fails with the unauthorized error marks nothing and
\* leaves the engine at the same batch with one attempt less; a batch whose
\* last error was unauthorized is given up after retry_attempts failed calls
C26_UnauthorizedIsRetried ==
    [][/\ UnauthorizedAttempt
           => /\ w' = w
              /\ pc' = pc
              /\ i' = i
              /\ attempt' = attempt + 1
       /\ (pc \in {"upload", "planupload"} /\ uploadErr = "unauthorized"
              /\ attempt > cfg.Sync.RetryAttempts /\ <<pc, i>>' # <<pc, i>>)
           => /\ Cardinality(CallsOfBatch) = cfg.Sync.RetryAttempts
              /\ \A k \in CallsOfBatch : ~calls[k].ok]_vars

C26_Witness ==
    /\ pc = "upload"
    /\ cfg.Sync.RetryAttempts = 2
    /\ attempt = 3
    /\ uploadErr = "unauthorized"
    /\ Len(calls) = 2
    /\ calls[1].batch = calls[2].batch
    /\ Len(toUpload) = 2
    /\ w.SyncedSessions = passStart.state.SyncedSessions

\* the timestamps of the lines of the parsed file that were decoded and whose
\* timestamp time.Parse accepted
ParsedTimes == {l.ts : l \in Range(ValidLines)} \ {0}

\* C27: the start time of the session is the earliest and its end time the
\* latest of the parsed timestamps, in whatever order the lines are, and the
\* end time is unset exactly when no timestamp parsed
C27_StartEarliestEndLatest ==
    res.fn = "ParseJSONL"
        => /\ res.val.EndedAt = 0 <=> ParsedTimes = {}
           /\ ParsedTimes # {}
                 => /\ res.val.StartedAt \in ParsedTimes
                    /\ res.val.EndedAt \in ParsedTimes
                    /\ \A t \in ParsedTimes :
                           res.val.StartedAt <= t /\ t <= res.val.EndedAt

\* the absolute project paths of up to five characters without an empty
\* segment
ProjectPaths ==
    {p \in {<<"/">> \o q : q \in SeqsUpTo({"a", "b", "-", "/"}, MaxDirLen)} :
        /\ Last(p) # "/"
        /\ ~Contains(p, <<"/", "/">>)}

\* the name of the directory that holds the transcripts of project path p
EncodedDir(p) == ReplaceAllChar(p, "/", "-")

\* C28: for every project path P, the session parsed from a file in the
\* directory that encodes P has ProjectPath P and ProjectName the last
\* segment of P, also when a segment of P contains "-"
C28_PathRoundTrip ==
    res.fn = "ParseJSONL"
        => \A p \in ProjectPaths :
               EncodedDir(p) = arg.file.dir
                   => /\ res.val.ProjectPath = p
                      /\ res.val.ProjectName = Last(Split(p, "/"))

RECURSIVE SumCounts(_, _)
SumCounts(tools, names) ==
    IF names = {} THEN 0
    ELSE LET n == CHOOSE x \in names : TRUE
         IN  tools[n].Count + SumCounts(tools, names \ {n})

\* C29: in a session ParseJSONL returns, every tool has as many successes as
\* invocations and no error, every tool-call entry has success true, the
\* invocation counts add up to the number of tool-call entries, and the
\* messages are TotalMessages entries numbered from 0 in file order
C29_SessionCountsAgree ==
    res.fn = "ParseJSONL"
        => LET s == res.val
           IN  /\ \A n \in DOMAIN s.Tools :
                      /\ s.Tools[n].Count = s.Tools[n].Success
                      /\ s.Tools[n].Errors = 0
                      /\ s.Tools[n].Count >= 1
               /\ \A k \in 1..Len(s.ToolCalls) : s.ToolCalls[k].Success
               /\ SumCounts(s.Tools, DOMAIN s.Tools) = Len(s.ToolCalls)
               /\ Len(s.Messages) = s.TotalMessages
               /\ \A k \in 1..Len(s.Messages) :
                      /\ s.Messages[k].Seq = k - 1
                      /\ s.Messages[k].Role = Turns[k].type
                      /\ s.Messages[k].Timestamp = Turns[k].ts

C29_Witness ==
    /\ res.fn = "ParseJSONL"
    /\ res.val.TotalMessages = 6
    /\ Len(res.val.ToolCalls) = 5
    /\ DOMAIN res.val.Tools = {"Bash", "Read"}
    /\ res.val.Tools["Bash"].Count = 3
    /\ res.val.Tools["Read"].Success = 2

\* the items submitted in the current pass: session ID and the file it was
\* parsed from
SubmittedItems ==
    UNION { {[id |-> calls[k].batch[j].ID, path |-> calls[k].src[j],
              at |-> <<calls[k].src, j>>] : j \in 1..Len(calls[k].batch)}
            : k \in {n \in 1..Len(calls) : calls[n].kind = "sessions"} }

\* C30: in one pass a session ID is submitted at one place of one batch only
\* (the attempts of one batch repeat it), also when files of several project
\* directories have the same name
C30_NoIDSubmittedTwice ==
    \A x, y \in SubmittedItems : x.id = y.id => x.at = y.at

\* the plans a successful UploadPlanBatch call of the current pass recorded,
\* with the content that was submitted
RecordedPlans ==
    UNION { {calls[k].batch[j] : j \in 1..Min(calls[k].n, Len(calls[k].batch))}
            : k \in {n \in 1..Len(calls) :
                        calls[n].kind = "plans" /\ calls[n].ok} }

\* C31: no plan modification is lost: when the plan delivery of a pass is
\* over, a recorded plan whose file no longer has the submitted content is
\* new for the plan test, so that the next pass takes it again
C31_NoPlanEditLost ==
    pc = "finish"
        => \A r \in RecordedPlans :
               LET q == PlanAt(planFiles, r.Name)
               IN  q.text # r.Content => PlanIsNew(w, q)

\* C32: a call the delivery client answered successfully never makes the pass
\* fault, whatever the number of records of the answer, and marks identities
\* of its batch only
C32_AnswerNeverFaults ==
    [][(Len(calls') = Len(calls) + 1 /\ calls'[Len(calls')].ok)
           => LET c == calls'[Len(calls')]
              IN  /\ pc' # "crashed"
                  /\ (DOMAIN w'.SyncedSessions) \ (DOMAIN w.SyncedSessions)
                         \subseteq {c.batch[j].ID :
                                       j \in {x \in 1..Len(c.batch) :
                                                 c.kind = "sessions"}}
                  /\ (DOMAIN w'.SyncedPlans) \ (DOMAIN w.SyncedPlans)
                         \subseteq {c.batch[j].Name :
                                       j \in {x \in 1..Len(c.batch) :
                                                 c.kind = "plans"}}]_vars

\* the batches batchSize cuts a list into
BatchesOf(list) ==
    {BatchAt(list, k * batchSize) :
        k \in 0..(CeilDiv(Len(list), batchSize) - 1)}

\* C33: with any configuration Validate accepts, every batch of a pass is
\* submitted at least once: when the session delivery is over every session
\* batch was the batch of a call, and when the plan delivery is over every plan
\* batch was; and Start does not fault when it makes its ticker
C33_EveryBatchAttempted ==
    /\ pc # "tickerpanic"
    /\ SessionsDone
           => \A b \in BatchesOf(toUpload) :
                  \E k \in 1..Len(calls) :
                      calls[k].kind = "sessions" /\ calls[k].batch = b
    /\ pc = "finish"
           => \A b \in BatchesOf(planUp) :
                  \E k \in 1..Len(calls) :
                      calls[k].kind = "plans" /\ calls[k].batch = b

\* C34: once Stop was called and Start is at its select, no further pass
\* begins
C34_NoPassAfterStop ==
    [][(mode = "daemon" /\ stopped # "no" /\ AtSelect) => pc' # "sync"]_vars

\* the files of the session batches of the pass that has ended for which every
\* call failed
FailedBatchPaths ==
    UNION {Range(calls[k].src) :
              k \in {n \in 1..Len(calls) :
                        /\ calls[n].kind = "sessions"
                        /\ \A m \in 1..Len(calls) :
                               calls[m].src = calls[n].src => ~calls[m].ok}}

\* C35: a batch that failed in one pass is submitted again in the next pass:
\* when the next pass begins, every file of a batch whose calls all failed is
\* in the list of sessions the pass builds for delivery
C35_FailedBatchTakenAgain ==
    [][(Between /\ pc' = "sync" /\ last.n >= 1)
           => FailedBatchPaths \subseteq
                  Range(ParseLoop(NewSessionFiles(sessFiles', w'), 1,
                                  sessFiles', cfg.Sharing, now',
                                  [state |-> w', toUpload |-> <<>>,
                                   src |-> <<>>]).src)]_vars

\* the calls of the current pass stay within retry_attempts per batch
CallsBounded ==
    /\ Len(SessionCalls)
          <= CeilDiv(Len(toUpload), batchSize) * cfg.Sync.RetryAttempts
    /\ Len(PlanCalls)
          <= CeilDiv(Len(planNew), batchSize) * cfg.Sync.RetryAttempts

\* C36: a pass makes at most ceil(n/10) * retry_attempts session calls and
\* ceil(m/10) * retry_attempts plan calls and never stops short of the write
\* of the state file, whatever the delivery client answers
C36_PassTerminates ==
    /\ CallsBounded
    /\ pc # "crashed"
    /\ (Between /\ last.n >= 1) => last.save # "none"

\* C37: two processes over one state file race: a process writes the state it
\* holds in memory over the file, whatever the file holds (no version check,
\* no merge): after a save that returned nil the file, when it can be read,
\* holds exactly that state; and a process loads the file only when Start or
\* SyncOnce is entered
C37_StateFileRace ==
    [][res.fn = "race"
           => \A p \in Procs :
                  /\ (res.proc[p].pc = "write" /\ res'.proc[p].pc # "write"
                         /\ res'.proc[p].err = "nil"
                         /\ stateFile'.status = "ok")
                        => /\ DOMAIN stateFile'.data.SyncedSessions
                                  = DOMAIN res.proc[p].w.SyncedSessions
                           /\ stateFile'.data = res.proc[p].w
                  /\ (res.proc[p].pc = "wait" /\ res'.proc[p].pc = "sync")
                        => res'.proc[p].w = res.proc[p].w]_vars

\* the interleaving: no save failed, the state file is written and omits an
\* identity that a process had recorded and saved, and a pass that began over
\* that file has submitted the identity again
C37_Witness ==
    /\ res.fn = "race"
    /\ res.clean
    /\ stateFile.status = "ok"
    /\ \A p \in Procs : res.proc[p].pc # "write"
    /\ \E x \in res.again :
          /\ x \in res.saved
          /\ x \notin DOMAIN stateFile.data.SyncedSessions
          /\ \E p \in Procs : x \in res.proc[p].lost

====
